---- MODULE Spec2Model ----
(***************************************************************************)
(* Model of scripts/update-books.mjs: one run of main() (archive retrieval, *)
(* identifier extraction, openBD batch lookup, cover probes, rocket-pencil  *)
(* merge, write of data/books.json), repeated run after run.                *)
(*                                                                          *)
(* Strings the code inspects character by character (identifiers, dates)   *)
(* are sequences of one-character strings.  Opaque strings (titles, URL     *)
(* prefixes) are one-element tokens.  JavaScript null is NULL.              *)
(***************************************************************************)
EXTENDS Integers, Sequences, FiniteSets, TLC

VARIABLES books, pc, run, lastFetch, isbns, pubdateByIsbn, cursor, openbd,
          itemsToday, probeIdx, probeStage, existing, outcome,
          requests, pending, probes, lastProbe, io, whitelist, runLabels,
          mToday, mPrior, mOut, mAgain, mpc,
          fnArg, fnOut, fnpc

vars == <<books, pc, run, lastFetch, isbns, pubdateByIsbn, cursor, openbd,
          itemsToday, probeIdx, probeStage, existing, outcome,
          requests, pending, probes, lastProbe, io, whitelist, runLabels,
          mToday, mPrior, mOut, mAgain, mpc,
          fnArg, fnOut, fnpc>>

runVars == <<books, pc, run, lastFetch, isbns, pubdateByIsbn, cursor, openbd,
             itemsToday, probeIdx, probeStage, existing, outcome,
             requests, pending, probes, lastProbe, io, whitelist, runLabels>>

\* io: the file and network operations of the run so far, in the order
\* main() awaited them
\* whitelist: data/whitelist.json as the run in progress found it;
\* runLabels: the labels main() loaded from it
\* the requests of a run as the network sees them: the lookups issued and
\* those not yet answered, the cover probes issued and the last probe's
\* result
lookupVars == <<requests, pending>>

probeVars == <<probes, lastProbe>>

wlVars == <<whitelist, runLabels>>

mergeVars == <<mToday, mPrior, mOut, mAgain, mpc>>

\* argument, result and position of a function of the script applied on its
\* own
fnVars == <<fnArg, fnOut, fnpc>>

----------------------------------------------------------------------------
(* Program constants *)

TAKE_ISBNS == 1200

OPENBD_CHUNK == 100

KEEP_TODAY == 8

MERGE_LIMIT == 8

----------------------------------------------------------------------------
(* Strings *)

NULL == <<"NULL">>

Digits == <<"0", "1", "2", "3", "4", "5", "6", "7", "8", "9">>

IsDigit(c) == c \in {"0", "1", "2", "3", "4", "5", "6", "7", "8", "9"}

IsSpace(c) == c \in {" ", "TAB", "IDEOSPACE", "CR"}

\* a ?? b
Coalesce(a, b) == IF a = NULL THEN b ELSE a

\* JavaScript truthiness of a string-or-null value
Truthy(s) == s # NULL /\ s # <<>>

\* a || b
OrElse(a, b) == IF Truthy(a) THEN a ELSE b

\* String.prototype.normalize("NFKC") on the characters of the model's
\* alphabet: full-width digits and letters fold to ASCII, the ideographic
\* space folds to a space.
NfkcChar(c) ==
  CASE c = "FW0" -> "0" [] c = "FW1" -> "1" [] c = "FW2" -> "2"
    [] c = "FW3" -> "3" [] c = "FW4" -> "4" [] c = "FW5" -> "5"
    [] c = "FW6" -> "6" [] c = "FW7" -> "7" [] c = "FW8" -> "8"
    [] c = "FW9" -> "9" [] c = "FWX" -> "X" [] c = "FWx" -> "x"
    [] c = "IDEOSPACE" -> " "
    [] OTHER -> c

RECURSIVE TrimLeft(_)
TrimLeft(s) ==
  IF s = <<>> THEN <<>>
  ELSE IF IsSpace(Head(s)) THEN TrimLeft(Tail(s)) ELSE s

RECURSIVE TrimRight(_)
TrimRight(s) ==
  IF s = <<>> THEN <<>>
  ELSE IF IsSpace(s[Len(s)]) THEN TrimRight(SubSeq(s, 1, Len(s) - 1)) ELSE s

Trim(s) == TrimRight(TrimLeft(s))

\* String(s ?? "").normalize("NFKC").trim()
normStr(s) ==
  LET t == Coalesce(s, <<>>)
  IN  Trim([k \in 1..Len(t) |-> NfkcChar(t[k])])

UpperChar(c) == IF c = "x" THEN "X" ELSE c

IsIsbnChar(c) == IsDigit(c) \/ c \in {"X", "x"}

\* normStr(s).replace(/[^0-9Xx]/g,"").toUpperCase()
normIsbn(s) ==
  LET t == SelectSeq(normStr(s), IsIsbnChar)
  IN  [k \in 1..Len(t) |-> UpperChar(t[k])]

\* the pattern without its end anchor: /^97[89]\d{10}/
MatchesIsbn13Prefix(t) ==
  /\ Len(t) >= 13
  /\ t[1] = "9"
  /\ t[2] = "7"
  /\ t[3] \in {"8", "9"}
  /\ \A k \in 4..13 : IsDigit(t[k])

\* /^97[89]\d{10}$/.test(t)
MatchesIsbn13(t) ==
  /\ Len(t) = 13
  /\ t[1] = "9"
  /\ t[2] = "7"
  /\ t[3] \in {"8", "9"}
  /\ \A k \in 4..13 : IsDigit(t[k])

isIsbn13Like(s) == MatchesIsbn13(normIsbn(s))

\* encodeURIComponent leaves digits and X unchanged, and every identifier
\* passed here is an output of normIsbn.
amazonUrlFromIsbn(isbn) ==
  <<"https://www.amazon.co.jp/s?k=">> \o isbn \o <<"&tag=mozublo-22">>

NDL_THUMB(isbn13) ==
  <<"https://ndlsearch.ndl.go.jp/thumbnail/">> \o isbn13 \o <<".jpg">>

OL_THUMB(isbn13) ==
  <<"https://covers.openlibrary.org/b/isbn/">> \o isbn13
    \o <<"-L.jpg?default=false">>

PadStart2(s) == IF Len(s) < 2 THEN <<"0">> \o s ELSE s

IsDateSep1(c) == c \in {"/", "-", ".", "NEN"}

IsDateSep2(c) == c \in {"/", "-", ".", "GATSU"}

AllDigits(s) == \A k \in 1..Len(s) : IsDigit(s[k])

\* Length (1 or 2) of the \d{1,2} group starting at position p when the
\* character after the group has to be a month separator; 0 when there is
\* no match.
DigitRun12(t, p) ==
  IF p + 2 <= Len(t) /\ IsDigit(t[p]) /\ IsDigit(t[p + 1])
       /\ IsDateSep2(t[p + 2])
  THEN 2
  ELSE IF p + 1 <= Len(t) /\ IsDigit(t[p]) /\ IsDateSep2(t[p + 1])
  THEN 1
  ELSE 0

\* Length (0, 1 or 2) of a greedy trailing \d{1,2} group starting at p.
DigitRunGreedy(t, p) ==
  IF p + 1 <= Len(t) /\ IsDigit(t[p]) /\ IsDigit(t[p + 1]) THEN 2
  ELSE IF p <= Len(t) /\ IsDigit(t[p]) THEN 1
  ELSE 0

formatPubdateMin(raw) ==
  IF ~Truthy(raw) THEN NULL
  ELSE
    LET t == Trim(raw)
        yearOk == Len(t) >= 5 /\ AllDigits(SubSeq(t, 1, 4)) /\ IsDateSep1(t[5])
        mLen == IF yearOk THEN DigitRun12(t, 6) ELSE 0
        dLen == IF mLen > 0 THEN DigitRunGreedy(t, 6 + mLen + 1) ELSE 0
        m2Len == IF yearOk THEN DigitRunGreedy(t, 6) ELSE 0
    IN  IF t = <<>> THEN NULL
        ELSE IF Len(t) = 8 /\ AllDigits(t)
        THEN SubSeq(t, 1, 4) \o <<"/">> \o SubSeq(t, 5, 6) \o <<"/">>
               \o SubSeq(t, 7, 8)
        ELSE IF mLen > 0 /\ dLen > 0
        THEN SubSeq(t, 1, 4) \o <<"/">>
               \o PadStart2(SubSeq(t, 6, 5 + mLen)) \o <<"/">>
               \o PadStart2(SubSeq(t, 7 + mLen, 6 + mLen + dLen))
        ELSE IF m2Len > 0
        THEN SubSeq(t, 1, 4) \o <<"/">> \o PadStart2(SubSeq(t, 6, 5 + m2Len))
        ELSE IF Len(t) <= 10 THEN t ELSE NULL

\* Array.prototype.slice(0, n)
Slice0(s, n) == SubSeq(s, 1, IF Len(s) < n THEN Len(s) ELSE n)

----------------------------------------------------------------------------
(* Table parsing and column inference.  A text is the sequence of its       *)
(* segments between line feeds; a carriage return before a line feed is the *)
(* last character "CR" of a segment other than the last one.                *)

SAMPLE_ROWS == 200

MIN_HITS == 3

Upper ==
  <<"A", "B", "C", "D", "E", "F", "G", "H", "I", "J", "K", "L", "M", "N",
    "O", "P", "Q", "R", "S", "T", "U", "V", "W", "X", "Y", "Z">>

Lower ==
  <<"a", "b", "c", "d", "e", "f", "g", "h", "i", "j", "k", "l", "m", "n",
    "o", "p", "q", "r", "s", "t", "u", "v", "w", "x", "y", "z">>

\* String.prototype.toLowerCase on one character
LowerChar(c) ==
  IF \E k \in 1..26 : Upper[k] = c
  THEN Lower[CHOOSE k \in 1..26 : Upper[k] = c]
  ELSE c

toLowerCase(s) == [k \in 1..Len(s) |-> LowerChar(s[k])]

\* \w of a regular expression
IsWordChar(c) ==
  \/ IsDigit(c)
  \/ c = "_"
  \/ \E k \in 1..26 : Upper[k] = c \/ Lower[k] = c

\* needle occurs in hay at position p
OccursAt(hay, needle, p) ==
  /\ p >= 1
  /\ p + Len(needle) - 1 <= Len(hay)
  /\ SubSeq(hay, p, p + Len(needle) - 1) = needle

\* String.prototype.includes
Includes(hay, needle) == \E p \in 1..(Len(hay) + 1) : OccursAt(hay, needle, p)

\* [...new Set(arr)]: the first occurrence of every value, in order
uniq(arr) ==
  LET Pair(i) == [i |-> i, v |-> arr[i]]
      IsFirst(q) == \A j \in 1..(q.i - 1) : arr[j] # q.v
      firsts == SelectSeq([i \in 1..Len(arr) |-> Pair(i)], IsFirst)
  IN  [k \in 1..Len(firsts) |-> firsts[k].v]

IsNotNul(c) == c # "NUL"

IsNotBlank(l) == Len(Trim(l)) > 0

\* text.split(/\r?\n/).map(s => s.replace(/\u0000/g,""))
\*     .filter(s => s.trim().length > 0)
splitLines(text) ==
  LET t == Coalesce(text, <<>>)
      Segment(k) ==
        IF k < Len(t) /\ Len(t[k]) > 0 /\ t[k][Len(t[k])] = "CR"
        THEN SubSeq(t[k], 1, Len(t[k]) - 1)
        ELSE t[k]
  IN  SelectSeq([k \in 1..Len(t) |-> SelectSeq(Segment(k), IsNotNul)],
                IsNotBlank)

CountOf(line, c) == Cardinality({k \in 1..Len(line) : line[k] = c})

\* the delimiter is the tab only when tabs outnumber commas
detectDelimiterTabIfMore(line) ==
  IF CountOf(line, "TAB") > CountOf(line, ",") THEN "TAB" ELSE ","

\* tab >= comma ? "\t" : ","
detectDelimiter(line) ==
  IF CountOf(line, "TAB") >= CountOf(line, ",") THEN "TAB" ELSE ","

\* String.prototype.split(delim) for a one-character delimiter
RECURSIVE SplitFrom(_, _, _, _)
SplitFrom(line, delim, p, cell) ==
  IF p > Len(line) THEN <<cell>>
  ELSE IF line[p] = delim
  THEN <<cell>> \o SplitFrom(line, delim, p + 1, <<>>)
  ELSE SplitFrom(line, delim, p + 1, Append(cell, line[p]))

Split(line, delim) == SplitFrom(line, delim, 1, <<>>)

MaxOf(S) == CHOOSE m \in S : \A n \in S : n <= m

\* [...r, ...Array(maxCols - r.length).fill("")]
PadRow(r, maxCols) ==
  [c \in 1..maxCols |-> IF c <= Len(r) THEN r[c] ELSE <<>>]

parseTable(lines) ==
  IF Len(lines) = 0 THEN [header |-> <<>>, rows |-> <<>>, delim |-> "TAB"]
  ELSE
    LET delim == detectDelimiter(lines[1])
        rows == [k \in 1..Len(lines) |-> Split(lines[k], delim)]
        maxCols == MaxOf({Len(rows[k]) : k \in 1..Len(rows)})
        normRows == [k \in 1..Len(rows) |-> PadRow(rows[k], maxCols)]
    IN  [header |-> normRows[1],
         rows |-> SubSeq(normRows, 2, Len(normRows)),
         delim |-> delim]

\* Array.prototype.findIndex over a set of matching 0-based indexes
FindIndex(matching) ==
  IF matching = {} THEN -1
  ELSE CHOOSE c \in matching : \A d \in matching : c <= d

\* the column with the greatest count, however small that count is
BestColumnNoMinimum(counts, cols) ==
  LET bestCount == MaxOf({0} \cup {counts[c] : c \in 0..(cols - 1)})
  IN  IF bestCount = 0 THEN -1
      ELSE FindIndex({c \in 0..(cols - 1) : counts[c] = bestCount})

\* the column with the greatest count, the first one among equals; -1 when
\* the greatest count is below MIN_HITS
BestColumn(counts, cols) ==
  LET bestCount == MaxOf({0} \cup {counts[c] : c \in 0..(cols - 1)})
      best == FindIndex({c \in 0..(cols - 1) : counts[c] = bestCount})
  IN  IF bestCount < MIN_HITS THEN -1 ELSE best

\* the inference that consults the data rows before the header
inferIsbnColumnDataFirst(header, rows) ==
  LET sample == Slice0(rows, SAMPLE_ROWS)
      cols == Len(header)
      counts == [c \in 0..(cols - 1) |->
                   Cardinality({k \in 1..Len(sample) :
                                  isIsbn13Like(sample[k][c + 1])})]
      byData == IF Len(sample) = 0 THEN -1 ELSE BestColumn(counts, cols)
  IN  IF byData # -1 THEN byData
      ELSE FindIndex({c \in 0..(cols - 1) :
             Includes(toLowerCase(normStr(header[c + 1])),
                      <<"i", "s", "b", "n">>)})

\* column indexes are 0-based as in the script; -1 is "not inferred"
inferIsbnColumn(header, rows) ==
  LET idx == FindIndex({c \in 0..(Len(header) - 1) :
               Includes(toLowerCase(normStr(header[c + 1])),
                        <<"i", "s", "b", "n">>)})
      sample == Slice0(rows, SAMPLE_ROWS)
      cols == Len(header)
      counts == [c \in 0..(cols - 1) |->
                   Cardinality({k \in 1..Len(sample) :
                                  isIsbn13Like(sample[k][c + 1])})]
  IN  IF idx # -1 THEN idx
      ELSE IF Len(sample) = 0 THEN -1
      ELSE BestColumn(counts, cols)

\* the header words of inferPubdateColumn; each kanji is one character:
\* HATSU BAI NICHI (release day), HATSU GYOU (issue), HAI HON (delivery),
\* KAN GYOU (publication)
PubdateKeys ==
  { <<"HATSU", "BAI", "NICHI">>, <<"HATSU", "GYOU", "NICHI">>,
    <<"HAI", "HON", "NICHI">>, <<"KAN", "GYOU", "NICHI">>,
    <<"HATSU", "BAI">>, <<"HATSU", "GYOU">>, <<"KAN", "GYOU">> }

inferPubdateColumn(header, rows) ==
  LET idx == FindIndex({c \in 0..(Len(header) - 1) :
               \E key \in PubdateKeys : Includes(normStr(header[c + 1]), key)})
      sample == Slice0(rows, SAMPLE_ROWS)
      cols == Len(header)
      counts == [c \in 0..(cols - 1) |->
                   Cardinality({k \in 1..Len(sample) :
                                  Truthy(formatPubdateMin(sample[k][c + 1]))})]
  IN  IF idx # -1 THEN idx
      ELSE IF Len(sample) = 0 THEN -1
      ELSE BestColumn(counts, cols)

\* data/whitelist.json: unreadable, or a document with label_includes_any
NoWhitelist == [readable |-> FALSE, label_includes_any |-> <<>>]

WhitelistDoc(labels) == [readable |-> TRUE, label_includes_any |-> labels]

IsNonEmpty(x) == Truthy(x)

loadWhitelistLabels(file) ==
  IF ~file.readable THEN <<>>
  ELSE
    LET raw == file.label_includes_any
    IN  uniq(SelectSeq([k \in 1..Len(raw) |-> normStr(raw[k])], IsNonEmpty))

\* the test that admits a line when there is no label at all
lineHasAnyLabelOpen(line, labels) ==
  \/ Len(labels) = 0
  \/ \E k \in 1..Len(labels) :
       Truthy(labels[k]) /\ Includes(normStr(line), labels[k])

lineHasAnyLabel(line, labels) ==
  IF Len(labels) = 0 THEN FALSE
  ELSE \E k \in 1..Len(labels) :
         Truthy(labels[k]) /\ Includes(normStr(line), labels[k])

\* Array.prototype.join("\t")
RECURSIVE JoinTab(_)
JoinTab(r) ==
  IF Len(r) = 0 THEN <<>>
  ELSE IF Len(r) = 1 THEN r[1]
  ELSE r[1] \o <<"TAB">> \o JoinTab(Tail(r))

\* 97[89]\d{10} matches t at position p
Isbn13At(t, p) ==
  /\ p >= 1
  /\ p + 12 <= Len(t)
  /\ MatchesIsbn13(SubSeq(t, p, p + 12))

\* the search on the line as it is, without normStr
extractIsbnFromTextLineRaw(line) ==
  LET hits == {p \in 1..Len(line) : Isbn13At(line, p)}
  IN  IF hits = {} THEN <<>>
      ELSE LET p == CHOOSE q \in hits : \A o \in hits : q <= o
           IN  SubSeq(line, p, p + 12)

\* normStr(line).match(/97[89]\d{10}/): m[0] of the first match, else ""
extractIsbnFromTextLine(line) ==
  LET t == normStr(line)
      hits == {p \in 1..Len(t) : Isbn13At(t, p)}
  IN  IF hits = {} THEN <<>>
      ELSE LET p == CHOOSE q \in hits : \A o \in hits : q <= o
           IN  SubSeq(t, p, p + 12)

\* \b at the boundary between positions p - 1 and p of t
WordBoundary(t, p) ==
  LET before == p > 1 /\ IsWordChar(t[p - 1])
      after == p <= Len(t) /\ IsWordChar(t[p])
  IN  before # after

\* joined.match(/\b(\d{8})\b/): m[1] of the first match, else NULL
Match8(t) ==
  LET hits == {p \in 1..(Len(t) - 7) :
                 /\ AllDigits(SubSeq(t, p, p + 7))
                 /\ WordBoundary(t, p)
                 /\ WordBoundary(t, p + 8)}
  IN  IF hits = {} THEN NULL
      ELSE LET p == CHOOSE q \in hits : \A o \in hits : q <= o
           IN  SubSeq(t, p, p + 7)

\* length of the match of (\d{4})[\/\-\.NEN](\d{1,2})[\/\-\.GATSU](\d{1,2})
\* that begins at position p; 0 when there is none
YmdLenAt(t, p) ==
  LET yearOk == /\ p + 4 <= Len(t)
                /\ AllDigits(SubSeq(t, p, p + 3))
                /\ IsDateSep1(t[p + 4])
      mLen == IF yearOk THEN DigitRun12(t, p + 5) ELSE 0
      dLen == IF mLen > 0 THEN DigitRunGreedy(t, p + 5 + mLen + 1) ELSE 0
  IN  IF mLen > 0 /\ dLen > 0 THEN 5 + mLen + 1 + dLen ELSE 0

\* joined.match(/(\d{4})[...](\d{1,2})[...](\d{1,2})/): m[0], else NULL
MatchYmd(t) ==
  LET hits == {p \in 1..Len(t) : YmdLenAt(t, p) > 0}
  IN  IF hits = {} THEN NULL
      ELSE LET p == CHOOSE q \in hits : \A o \in hits : q <= o
           IN  SubSeq(t, p, p + YmdLenAt(t, p) - 1)

\* the identifier of one admitted row: the cell of the inferred column when
\* it is a 13-digit identifier, else the first match in the joined row
RowIsbn(r, isbnCol) ==
  LET cell == IF isbnCol # -1 THEN normIsbn(r[isbnCol + 1]) ELSE <<>>
      isbn == IF MatchesIsbn13(cell) THEN cell ELSE <<>>
  IN  IF Truthy(isbn) THEN isbn ELSE extractIsbnFromTextLine(JoinTab(r))

\* the publication date of one row: the cell of the inferred column, else
\* an 8-digit token of the joined row, else a year-month-day token
RowPubdate(r, pubCol) ==
  LET joined == JoinTab(r)
      byCol == IF pubCol # -1 THEN formatPubdateMin(r[pubCol + 1]) ELSE NULL
      m8 == Match8(joined)
      by8 == IF m8 # NULL THEN formatPubdateMin(m8) ELSE NULL
      mYmd == MatchYmd(joined)
      byYmd == IF mYmd # NULL THEN formatPubdateMin(mYmd) ELSE NULL
  IN  IF Truthy(byCol) THEN byCol
      ELSE IF Truthy(by8) THEN by8
      ELSE IF Truthy(byYmd) THEN byYmd
      ELSE NULL

IsTaken(x) == x.taken

\* the loop over the rows: the rows that reach isbns.push(isbn), each with
\* its identifier and date
TakenRows(rows, labels, isbnCol, pubCol) ==
  SelectSeq(
    [k \in 1..Len(rows) |->
       LET r == rows[k]
           isbn == RowIsbn(r, isbnCol)
           admitted == lineHasAnyLabel(JoinTab(r), labels)
       IN  [taken |-> admitted /\ Truthy(isbn),
            isbn |-> isbn,
            pd |-> IF admitted /\ Truthy(isbn) THEN RowPubdate(r, pubCol)
                   ELSE NULL]],
    IsTaken)

\* if(pd && !pubdateByIsbn.has(isbn)) pubdateByIsbn.set(isbn, pd)
FirstPubdates(taken) ==
  LET dated == {k \in 1..Len(taken) : Truthy(taken[k].pd)}
  IN  [id \in {taken[k].isbn : k \in dated} |->
         taken[CHOOSE k \in dated :
                 /\ taken[k].isbn = id
                 /\ \A j \in dated : taken[j].isbn = id => k <= j].pd]

\* for every row, whether the label test admitted it and the value of isbn
\* at the end of its iteration ("" when the row was skipped)
RowOutcomes(rows, labels, isbnCol) ==
  [k \in 1..Len(rows) |->
     LET admitted == lineHasAnyLabel(JoinTab(rows[k]), labels)
     IN  [admitted |-> admitted,
          isbn |-> IF admitted THEN RowIsbn(rows[k], isbnCol) ELSE <<>>]]

\* every local of extractIsbnsAndPubdateFromTrcText at its return
ExtractLocals(text, labels) ==
  LET lines == splitLines(text)
      table == parseTable(lines)
      isbnCol == inferIsbnColumn(table.header, table.rows)
      pubCol == inferPubdateColumn(table.header, table.rows)
      taken == TakenRows(table.rows, labels, isbnCol, pubCol)
  IN  IF Len(lines) = 0
      THEN [lines |-> lines, header |-> <<>>, rows |-> <<>>, delim |-> "TAB",
            isbnCol |-> -1, pubCol |-> -1, perRow |-> <<>>, isbns |-> <<>>,
            pubdateByIsbn |-> [id \in {} |-> NULL]]
      ELSE [lines |-> lines, header |-> table.header, rows |-> table.rows,
            delim |-> table.delim, isbnCol |-> isbnCol, pubCol |-> pubCol,
            perRow |-> RowOutcomes(table.rows, labels, isbnCol),
            isbns |-> uniq([k \in 1..Len(taken) |-> taken[k].isbn]),
            pubdateByIsbn |-> FirstPubdates(taken)]

extractIsbnsAndPubdateFromTrcText(text, labels) ==
  LET x == ExtractLocals(text, labels)
  IN  [isbns |-> x.isbns, pubdateByIsbn |-> x.pubdateByIsbn,
       pubCol |-> x.pubCol]

----------------------------------------------------------------------------
(* openBD entries and the records built from them *)

\* JavaScript null / undefined where an object is expected
NullObj == [isNull |-> TRUE]

\* One element of the openBD response array.  Absent fields are NULL.
Entry(sIsbn, sTitle, sCover, sPubdate, hCover, oTitle, oCover) ==
  [isNull |-> FALSE,
   summary |-> [isbn |-> sIsbn, title |-> sTitle, cover |-> sCover,
                pubdate |-> sPubdate],
   hanmotoCover |-> hCover,
   onixTitle |-> oTitle,
   onixCover |-> oCover]

pickCover(entry) ==
  IF Truthy(entry.summary.cover) THEN entry.summary.cover
  ELSE IF Truthy(entry.hanmotoCover) THEN entry.hanmotoCover
  ELSE IF Truthy(entry.onixCover) THEN entry.onixCover
  ELSE NULL

\* the title without the nested ONIX title
pickTitleSummaryOnly(entry) ==
  IF Truthy(entry.summary.title) THEN entry.summary.title ELSE <<>>

pickTitle(entry) ==
  IF Truthy(entry.summary.title) THEN entry.summary.title
  ELSE IF Truthy(entry.onixTitle) THEN entry.onixTitle
  ELSE <<>>

pickPubdateFromOpenbd(entry) ==
  formatPubdateMin(Coalesce(entry.summary.pubdate, <<>>))

\* if(!isbn || !title) return null
pickRejects(isbn, title) == ~Truthy(isbn) \/ ~Truthy(title)

pick(entry, fallbackIsbn, trcPubdate) ==
  IF entry.isNull THEN NullObj
  ELSE
    LET isbn == normIsbn(OrElse(entry.summary.isbn, fallbackIsbn))
        title == pickTitle(entry)
        cover == pickCover(entry)
        pubdate == Coalesce(trcPubdate,
                            Coalesce(pickPubdateFromOpenbd(entry), NULL))
    IN  IF pickRejects(isbn, title) THEN NullObj
        ELSE [isbn |-> isbn,
              title |-> title,
              cover |-> Coalesce(cover, NULL),
              pubdate |-> pubdate,
              amazon |-> amazonUrlFromIsbn(isbn)]

\* pubdateByIsbn.get(isbn) ?? null
MapGet(m, k) == IF k \in DOMAIN m THEN m[k] ELSE NULL

\* if(b) itemsTodayAll.push(b)
IsPicked(b) == b # NullObj

\* The loop of main() over the lookup results: itemsTodayAll
PickLoop(results, ids, pubdates) ==
  SelectSeq(
    [i \in 1..Len(results) |->
       LET isbn == IF i <= Len(ids) THEN ids[i] ELSE NULL
       IN  pick(results[i], isbn, MapGet(pubdates, isbn))],
    IsPicked)

----------------------------------------------------------------------------
(* Cover probes *)

\* The outcome of fetchWithTimeout as probeImage sees it: the request threw
\* (network error, or abort after the 5000 ms deadline), or a response with
\* a status and a content type came back.
ProbeResults ==
  { [threw |-> TRUE, ok |-> FALSE, ct |-> <<>>],
    [threw |-> FALSE, ok |-> FALSE, ct |-> <<"image/jpeg">>],
    [threw |-> FALSE, ok |-> TRUE, ct |-> <<"image/jpeg">>],
    [threw |-> FALSE, ok |-> TRUE, ct |-> <<>>],
    [threw |-> FALSE, ok |-> TRUE, ct |-> <<"text/html">>] }

CtIsImage(ct) == ct \in {<<"image/jpeg">>, <<"image/png">>}

\* the probe without the test of res.ok
probeImageAnyStatus(url, res) ==
  IF res.threw THEN NULL
  ELSE IF res.ct # <<>> /\ ~CtIsImage(res.ct) THEN NULL
  ELSE url

probeImage(url, res) ==
  IF res.threw THEN NULL
  ELSE IF ~res.ok THEN NULL
  ELSE IF res.ct # <<>> /\ ~CtIsImage(res.ct) THEN NULL
  ELSE url

\* fillMissingCovers skips an item that has a cover or whose identifier is
\* not a 13-digit one: no probe is issued for it.
NeedsProbe(it) == ~Truthy(it.cover) /\ MatchesIsbn13(normIsbn(it.isbn))

\* Index of the first item at or after j that is probed; Len(items) + 1 when
\* the loop of fillMissingCovers has run off the end.
RECURSIVE NextProbe(_, _)
NextProbe(items, j) ==
  IF j > Len(items) THEN Len(items) + 1
  ELSE IF NeedsProbe(items[j]) THEN j
  ELSE NextProbe(items, j + 1)

----------------------------------------------------------------------------
(* Persisted collection and the rocket-pencil merge *)

\* data/books.json: absent, or a document with a generation stamp and items,
\* or a file that readFile or JSON.parse rejects.
\* The stamp is the ordinal of the run that wrote the document.
NoFile ==
  [exists |-> FALSE, readable |-> FALSE, generated_at |-> 0, items |-> <<>>]

BooksDoc(stamp, items) ==
  [exists |-> TRUE, readable |-> TRUE, generated_at |-> stamp,
   items |-> items]

UnreadableFile ==
  [exists |-> TRUE, readable |-> FALSE, generated_at |-> 0, items |-> <<>>]

\* filter of loadExistingItems
loadKeeps(x) == MatchesIsbn13(x.isbn) /\ Truthy(x.title)

loadExistingItems(file) ==
  IF ~file.exists \/ ~file.readable THEN <<>>
  ELSE
    LET mapped ==
          [k \in 1..Len(file.items) |->
             LET x == file.items[k]
             IN  [isbn |-> normIsbn(x.isbn),
                  title |-> Coalesce(x.title, <<>>),
                  cover |-> Coalesce(x.cover, NULL),
                  pubdate |-> Coalesce(x.pubdate, NULL),
                  amazon |-> Coalesce(x.amazon,
                               IF Truthy(x.isbn)
                               THEN amazonUrlFromIsbn(normIsbn(x.isbn))
                               ELSE <<"#">>)]]
    IN  SelectSeq(mapped, loadKeeps)

\* new Map(oldItems.map(x => [normIsbn(x.isbn), x])).get(k): the last item
\* with that key wins; NullObj when there is none.
RECURSIVE oldByIsbn(_, _)
oldByIsbn(oldItems, k) ==
  IF oldItems = <<>> THEN NullObj
  ELSE IF normIsbn(oldItems[Len(oldItems)].isbn) = k
  THEN oldItems[Len(oldItems)]
  ELSE oldByIsbn(SubSeq(oldItems, 1, Len(oldItems) - 1), k)

\* the patch with the operands of ?? swapped: the prior value wins
patchItemOldWins(it, oldItems) ==
  LET k == normIsbn(it.isbn)
      old == oldByIsbn(oldItems, k)
  IN  IF old = NullObj THEN it
      ELSE [it EXCEPT
              !.cover = Coalesce(old.cover, Coalesce(it.cover, NULL)),
              !.pubdate = Coalesce(old.pubdate, Coalesce(it.pubdate, NULL))]

patchItem(it, oldItems) ==
  LET k == normIsbn(it.isbn)
      old == oldByIsbn(oldItems, k)
  IN  IF old = NullObj THEN it
      ELSE [it EXCEPT
              !.cover = Coalesce(it.cover, Coalesce(old.cover, NULL)),
              !.pubdate = Coalesce(it.pubdate, Coalesce(old.pubdate, NULL)),
              !.amazon = OrElse(it.amazon,
                           OrElse(old.amazon,
                             IF Truthy(k) THEN amazonUrlFromIsbn(k)
                             ELSE <<"#">>))]

patchedNew(newItems, oldItems) ==
  [i \in 1..Len(newItems) |-> patchItem(newItems[i], oldItems)]

\* the walk without the seen test
mergeSkipsNoSeen(k, seen) == ~Truthy(k)

\* the walk that never skips an item
mergeSkipsNever(k, seen) == FALSE

\* if(!k || seen.has(k)) continue
mergeSkips(k, seen) == ~Truthy(k) \/ k \in seen

\* the limit test off by one: merged.length > limit
mergeFullLate(merged, limit) == Len(merged) > limit

\* if(merged.length >= limit) break
mergeFull(merged, limit) == Len(merged) >= limit

\* for(const it of [...patchedNew, ...oldItems]) of mergeRocketPencil
RECURSIVE mergeWalk(_, _, _, _)
mergeWalk(items, seen, merged, limit) ==
  IF items = <<>> THEN merged
  ELSE
    LET it == Head(items)
        k == normIsbn(it.isbn)
    IN  IF mergeSkips(k, seen) THEN mergeWalk(Tail(items), seen, merged, limit)
        ELSE IF mergeFull(Append(merged, it), limit) THEN Append(merged, it)
        ELSE mergeWalk(Tail(items), seen \cup {k}, Append(merged, it), limit)

\* the walk over [...oldItems, ...patchedNew]
mergeOrderOldFirst(patched, oldItems) == oldItems \o patched

mergeOrder(patched, oldItems) == patched \o oldItems

mergeRocketPencil(newItems, oldItems, limit) ==
  mergeWalk(mergeOrder(patchedNew(newItems, oldItems), oldItems),
            {}, <<>>, limit)

----------------------------------------------------------------------------
(* Bounds and the inputs of a run *)

\* number of runs of main() in one behaviour
MaxRuns == 2

\* the day's archive yields no identifier, or the single identifier of
\* catalogue index first <= MaxFirst, or the first BigLen identifiers
MaxFirst == 2

BigLen == 101

\* number of answer profiles of the lookup service that are tried
NumProfiles == 2

\* the same three bounds for the inputs of the merge taken as a function:
\* archives of up to MergeMaxLen identifiers starting at an index up to
\* MergeMaxFirst, answered under MergeProfiles profiles
MergeMaxFirst == 2

MergeMaxLen == 12

MergeProfiles == 3

Digit3(i) ==
  <<Digits[((i \div 100) % 10) + 1], Digits[((i \div 10) % 10) + 1],
    Digits[(i % 10) + 1]>>

\* the i-th identifier of the catalogue, e.g. 9784000000007
CatalogId(i) ==
  <<"9", "7", "8", "4", "0", "0", "0", "0", "0", "0">> \o Digit3(i)

\* the same book's 10-character legacy identifier
LegacyId(i) == <<"4", "0", "0", "0", "0", "0", "0">> \o Digit3(i)

TitleOf(i) == <<"title">>

CoverOf(i) == <<"https://cover.openbd.jp/">> \o CatalogId(i) \o <<".jpg">>

RawDate == <<"2", "0", "2", "6", "0", "1", "1", "0">>

TrcDate == <<"2", "0", "2", "6", "/", "0", "1", "/", "0", "9">>

\* What the lookup service answers for the i-th identifier under profile r.
\* The seven shapes: complete entry; no entry; entry without cover and
\* date; an entry without date whose summary names the previous identifier
\* of the catalogue; entry without title; entry without cover whose summary
\* names the legacy 10-character identifier; entry with ONIX title and
\* cover only.
ServiceEntry(i, r) ==
  LET kind == (i + r - 1) % 7
  IN  CASE kind = 0 ->
             Entry(CatalogId(i), TitleOf(i), CoverOf(i), RawDate,
                   NULL, NULL, NULL)
        [] kind = 1 -> NullObj
        [] kind = 2 ->
             Entry(CatalogId(i), TitleOf(i), <<>>, <<>>, NULL, NULL, NULL)
        [] kind = 3 ->
             Entry(CatalogId(IF i > 1 THEN i - 1 ELSE i), TitleOf(i),
                   CoverOf(i), NULL, NULL, NULL, NULL)
        [] kind = 4 ->
             Entry(CatalogId(i), <<>>, CoverOf(i), RawDate, NULL, NULL, NULL)
        [] kind = 5 ->
             Entry(LegacyId(i), TitleOf(i), NULL, RawDate, NULL, NULL, NULL)
        [] OTHER ->
             Entry(NULL, NULL, NULL, NULL, NULL, TitleOf(i), CoverOf(i))

\* An archive whose first identifier has an odd catalogue index carries a
\* publication date on every row, any other archive on none.
Archives ==
  { [first |-> f, len |-> n, dated |-> (f % 2 = 1)] :
      f \in 1..MaxFirst, n \in 0..1 }
  \cup { [first |-> 1, len |-> BigLen, dated |-> TRUE] }

\* the identifiers of the archive's rows in row order, and the date of
\* each row that carries one
ArchiveIsbns(a) == [k \in 1..a.len |-> CatalogId(a.first + k - 1)]

ArchivePubdates(a) ==
  IF a.dated
  THEN [id \in {CatalogId(a.first + k - 1) : k \in 1..a.len} |-> TrcDate]
  ELSE [id \in {} |-> NULL]

\* the label every row of an archive carries
ArchiveTag == <<"s", "h", "i", "n">>

\* the text file of the archive: a header line naming the identifier column
\* (and the release-day column of a dated archive), then one row per
\* identifier
ArchiveHeader(a) ==
  <<"i", "s", "b", "n", "TAB", "n", "a", "m", "e">>
  \o (IF a.dated THEN <<"TAB", "HATSU", "BAI", "NICHI">> ELSE <<>>)

ArchiveRow(a, k) ==
  ArchiveIsbns(a)[k] \o <<"TAB">> \o ArchiveTag
  \o (IF a.dated THEN <<"TAB">> \o TrcDate ELSE <<>>)

ArchiveText(a) == <<ArchiveHeader(a)>> \o [k \in 1..a.len |-> ArchiveRow(a, k)]

\* data/whitelist.json as a run may find it: missing or unparseable, a
\* document without labels, a document whose only label is blank, and a
\* document naming the label of the archive's rows
RunWhitelists ==
  { NoWhitelist,
    WhitelistDoc(<<>>),
    WhitelistDoc(<< <<" ">> >>),
    WhitelistDoc(<<ArchiveTag>>) }

\* index in the catalogue of an identifier that ArchiveIsbns produced
CatalogIndex(id) ==
  CHOOSE i \in 1..(MaxFirst + MergeMaxFirst + MergeMaxLen + BigLen) :
    CatalogId(i) = id

\* the response array of one lookup: positionally aligned with the chunk
LookupResponse(chunk, r) ==
  [k \in 1..Len(chunk) |-> ServiceEntry(CatalogIndex(chunk[k]), r)]

EmptyMap == [id \in {} |-> NULL]

----------------------------------------------------------------------------
(* One run of main() *)

\* a fetch that does not test res.ok
fetchNeverThrows(resOk) == FALSE

\* fetchJson / fetchText / fetchBinToFile: throws unless the response is ok
fetchThrows(resOk) == ~resOk

\* the empty document written without the existence test
createsEmptyFileAlways(file) == TRUE

\* the zero-identifier branch that never writes
createsEmptyFileNever(file) == FALSE

\* the zero-identifier branch that also replaces a file it cannot read
createsEmptyFileIfUnreadable(file) == ~file.exists \/ ~file.readable

\* if(!(await exists(BOOKS_PATH)))
createsEmptyFile(file) == ~file.exists

Init ==
  /\ books \in {NoFile, BooksDoc(0, <<>>), UnreadableFile}
  /\ pc = "idle"
  /\ run = 0
  /\ lastFetch = "none"
  /\ isbns = <<>>
  /\ pubdateByIsbn = EmptyMap
  /\ cursor = 0
  /\ openbd = <<>>
  /\ itemsToday = <<>>
  /\ probeIdx = 1
  /\ probeStage = "ndl"
  /\ existing = <<>>
  /\ outcome = "none"
  /\ requests = <<>>
  /\ pending = <<>>
  /\ probes = <<>>
  /\ lastProbe = "none"
  /\ io = <<>>
  /\ whitelist = NoWhitelist
  /\ runLabels = <<>>
  /\ mToday = <<>>
  /\ mPrior = <<>>
  /\ mOut = <<>>
  /\ mAgain = <<>>
  /\ mpc = "off"
  /\ fnArg = <<>>
  /\ fnOut = <<>>
  /\ fnpc = "off"

\* main() is started: mkdir, loadWhitelistLabels
StartRun(file) ==
  /\ pc = "idle"
  /\ run < MaxRuns
  /\ run' = run + 1
  /\ pc' = "fetch"
  /\ UNCHANGED <<books, lastFetch, isbns, pubdateByIsbn, cursor, openbd,
                 itemsToday, probeIdx, probeStage, existing, outcome>>
  /\ UNCHANGED <<lookupVars, probeVars>>
  /\ UNCHANGED <<mergeVars, fnVars>>
  /\ whitelist' = file
  /\ runLabels' = loadWhitelistLabels(file)
  /\ io' = <<"mkdir", "whitelist">>

\* findLatestTrcZipUrl / fetchBinToFile / unzipPickTextFile, then the
\* extraction and the slice to TAKE_ISBNS
FetchArchive(resOk, a) ==
  /\ pc = "fetch"
  /\ lastFetch' = IF resOk THEN "ok" ELSE "failed"
  /\ IF fetchThrows(resOk)
     THEN /\ pc' = "aborted"
          /\ outcome' = "error"
          /\ UNCHANGED <<isbns, pubdateByIsbn>>
     ELSE \E x \in {extractIsbnsAndPubdateFromTrcText(ArchiveText(a),
                                                        runLabels)} :
              /\ isbns' = Slice0(x.isbns, TAKE_ISBNS)
              /\ pubdateByIsbn' = x.pubdateByIsbn
              /\ pc' = IF Len(isbns') = 0 THEN "zero" ELSE "lookup"
              /\ UNCHANGED outcome
  /\ UNCHANGED <<books, run, cursor, openbd, itemsToday, probeIdx,
                 probeStage, existing>>
  /\ UNCHANGED <<lookupVars, probeVars>>
  /\ UNCHANGED <<mergeVars, fnVars>>
  /\ UNCHANGED wlVars
  /\ io' = Append(io, "archive")

\* if(isbns.length === 0){ ... return; }
ZeroIsbns ==
  /\ pc = "zero"
  /\ IF createsEmptyFile(books)
     THEN /\ books' = BooksDoc(run, <<>>)
          /\ outcome' = "created_empty"
     ELSE /\ UNCHANGED books
          /\ outcome' = "kept_no_isbns"
  /\ pc' = "done"
  /\ UNCHANGED <<run, lastFetch, isbns, pubdateByIsbn, cursor, openbd,
                 itemsToday, probeIdx, probeStage, existing>>
  /\ UNCHANGED <<lookupVars, probeVars>>
  /\ UNCHANGED <<mergeVars, fnVars>>
  /\ UNCHANGED wlVars
  /\ io' = IF createsEmptyFile(books) THEN io \o <<"exists", "write">>
           ELSE Append(io, "exists")

\* a chunk one identifier too long: isbns.slice(i, i+OPENBD_CHUNK+1)
chunkAtLong(ids, i) ==
  SubSeq(ids, i + 1,
         IF i + OPENBD_CHUNK + 1 < Len(ids) THEN i + OPENBD_CHUNK + 1
         ELSE Len(ids))

\* isbns.slice(i, i+OPENBD_CHUNK)
chunkAt(ids, i) ==
  SubSeq(ids, i + 1,
         IF i + OPENBD_CHUNK < Len(ids) THEN i + OPENBD_CHUNK ELSE Len(ids))

\* the loop of openbdBatch up to its await: the chunk is cut and the request
\* for it is sent
LookupIssue ==
  /\ pc = "lookup"
  /\ cursor < Len(isbns)
  /\ requests' = Append(requests, chunkAt(isbns, cursor))
  /\ pending' = Append(pending, chunkAt(isbns, cursor))
  /\ pc' = "await"
  /\ UNCHANGED <<books, run, lastFetch, isbns, pubdateByIsbn, cursor, openbd,
                 itemsToday, probeIdx, probeStage, existing, outcome>>
  /\ UNCHANGED probeVars
  /\ UNCHANGED <<mergeVars, fnVars>>
  /\ UNCHANGED wlVars
  /\ io' = Append(io, "lookup")

\* the rest of the iteration: fetchJson settles, the response is pushed to
\* out and i advances
LookupChunk(resOk, r) ==
  /\ pc = "await"
  /\ pending # <<>>
  /\ pending' = Tail(pending)
  /\ IF fetchThrows(resOk)
     THEN /\ pc' = "aborted"
          /\ outcome' = "error"
          /\ UNCHANGED <<openbd, cursor>>
     ELSE /\ openbd' = openbd \o LookupResponse(Head(pending), r)
          /\ cursor' = cursor + OPENBD_CHUNK
          /\ pc' = "lookup"
          /\ UNCHANGED outcome
  /\ lastFetch' = IF resOk THEN "ok" ELSE "failed"
  /\ UNCHANGED <<books, run, isbns, pubdateByIsbn, itemsToday, probeIdx,
                 probeStage, existing, requests>>
  /\ UNCHANGED probeVars
  /\ UNCHANGED <<mergeVars, fnVars>>
  /\ UNCHANGED wlVars
  /\ UNCHANGED io

\* the loop over openbd, the slice to 8, and the entry of fillMissingCovers;
\* openbd is not read after the loop and is dropped here
PickAll ==
  /\ pc = "lookup"
  /\ cursor >= Len(isbns)
  /\ itemsToday' = Slice0(PickLoop(openbd, isbns, pubdateByIsbn), KEEP_TODAY)
  /\ openbd' = <<>>
  /\ probeIdx' = NextProbe(itemsToday', 1)
  /\ probeStage' = "ndl"
  /\ pc' = "covers"
  /\ UNCHANGED <<books, run, lastFetch, isbns, pubdateByIsbn, cursor,
                 existing, outcome>>
  /\ UNCHANGED <<lookupVars, probeVars>>
  /\ UNCHANGED <<mergeVars, fnVars>>
  /\ UNCHANGED wlVars
  /\ UNCHANGED io

\* what probeImage made of the response
ProbeKind(res) ==
  IF res.threw THEN "threw"
  ELSE IF ~res.ok THEN "status"
  ELSE IF res.ct # <<>> /\ ~CtIsImage(res.ct) THEN "type"
  ELSE "image"

\* const ndl = await probeImage(NDL_THUMB(isbn13))
ProbeNdl(res) ==
  /\ pc = "covers"
  /\ probeIdx <= Len(itemsToday)
  /\ probeStage = "ndl"
  /\ LET url == NDL_THUMB(normIsbn(itemsToday[probeIdx].isbn))
         ndl == probeImage(url, res)
     IN  /\ probes' = Append(probes, [idx |-> probeIdx, src |-> "ndl",
                                      url |-> url, accepted |-> Truthy(ndl)])
         /\ IF Truthy(ndl)
            THEN /\ itemsToday' = [itemsToday EXCEPT ![probeIdx].cover = ndl]
                 /\ probeIdx' = NextProbe(itemsToday', probeIdx + 1)
                 /\ UNCHANGED probeStage
            ELSE /\ probeStage' = "ol"
                 /\ UNCHANGED <<itemsToday, probeIdx>>
  /\ lastProbe' = ProbeKind(res)
  /\ UNCHANGED <<books, pc, run, lastFetch, isbns, pubdateByIsbn, cursor,
                 openbd, existing, outcome>>
  /\ UNCHANGED lookupVars
  /\ UNCHANGED <<mergeVars, fnVars>>
  /\ UNCHANGED wlVars
  /\ io' = Append(io, "probe")

\* const ol = await probeImage(OL_THUMB(isbn13))
ProbeOl(res) ==
  /\ pc = "covers"
  /\ probeIdx <= Len(itemsToday)
  /\ probeStage = "ol"
  /\ LET url == OL_THUMB(normIsbn(itemsToday[probeIdx].isbn))
         ol == probeImage(url, res)
     IN  /\ probes' = Append(probes, [idx |-> probeIdx, src |-> "ol",
                                      url |-> url, accepted |-> Truthy(ol)])
         /\ IF Truthy(ol)
            THEN itemsToday' = [itemsToday EXCEPT ![probeIdx].cover = ol]
            ELSE UNCHANGED itemsToday
  /\ probeIdx' = NextProbe(itemsToday, probeIdx + 1)
  /\ probeStage' = "ndl"
  /\ lastProbe' = ProbeKind(res)
  /\ UNCHANGED <<books, pc, run, lastFetch, isbns, pubdateByIsbn, cursor,
                 openbd, existing, outcome>>
  /\ UNCHANGED lookupVars
  /\ UNCHANGED <<mergeVars, fnVars>>
  /\ UNCHANGED wlVars
  /\ io' = Append(io, "probe")

\* if(itemsToday.length === 0){ ... return; }
ZeroItems ==
  /\ pc = "covers"
  /\ probeIdx > Len(itemsToday)
  /\ Len(itemsToday) = 0
  /\ pc' = "done"
  /\ outcome' = "kept_no_items"
  /\ UNCHANGED <<books, run, lastFetch, isbns, pubdateByIsbn, cursor, openbd,
                 itemsToday, probeIdx, probeStage, existing>>
  /\ UNCHANGED <<lookupVars, probeVars>>
  /\ UNCHANGED <<mergeVars, fnVars>>
  /\ UNCHANGED wlVars
  /\ UNCHANGED io

\* const existing = await loadExistingItems()
LoadExisting ==
  /\ pc = "covers"
  /\ probeIdx > Len(itemsToday)
  /\ Len(itemsToday) > 0
  /\ existing' = loadExistingItems(books)
  /\ pc' = "merge"
  /\ lastProbe' = "none"
  /\ UNCHANGED <<books, run, lastFetch, isbns, pubdateByIsbn, cursor, openbd,
                 itemsToday, probeIdx, probeStage, outcome>>
  /\ UNCHANGED <<lookupVars, probes>>
  /\ UNCHANGED <<mergeVars, fnVars>>
  /\ UNCHANGED wlVars
  /\ io' = Append(io, "read")

\* a run that writes books.json a second time
WriteBooksTwice ==
  /\ pc = "merge"
  /\ books' = BooksDoc(run, mergeRocketPencil(itemsToday, existing, MERGE_LIMIT))
  /\ pc' = "done"
  /\ outcome' = "updated"
  /\ UNCHANGED <<run, lastFetch, isbns, pubdateByIsbn, cursor, openbd,
                 itemsToday, probeIdx, probeStage, existing>>
  /\ UNCHANGED <<lookupVars, probeVars>>
  /\ UNCHANGED <<mergeVars, fnVars>>
  /\ UNCHANGED wlVars
  /\ io' = io \o <<"write", "write">>

\* mergeRocketPencil(itemsToday, existing, 8) and the write of books.json
WriteBooks ==
  /\ pc = "merge"
  /\ books' = BooksDoc(run, mergeRocketPencil(itemsToday, existing, MERGE_LIMIT))
  /\ pc' = "done"
  /\ outcome' = "updated"
  /\ UNCHANGED <<run, lastFetch, isbns, pubdateByIsbn, cursor, openbd,
                 itemsToday, probeIdx, probeStage, existing>>
  /\ UNCHANGED <<lookupVars, probeVars>>
  /\ UNCHANGED <<mergeVars, fnVars>>
  /\ UNCHANGED wlVars
  /\ io' = Append(io, "write")

\* the process exits (main returned, or main().catch called process.exit)
EndRun ==
  /\ pc \in {"done", "aborted"}
  /\ pc' = "idle"
  /\ lastFetch' = "none"
  /\ isbns' = <<>>
  /\ pubdateByIsbn' = EmptyMap
  /\ cursor' = 0
  /\ openbd' = <<>>
  /\ itemsToday' = <<>>
  /\ probeIdx' = 1
  /\ probeStage' = "ndl"
  /\ existing' = <<>>
  /\ outcome' = "none"
  /\ requests' = <<>>
  /\ pending' = <<>>
  /\ probes' = <<>>
  /\ lastProbe' = "none"
  /\ UNCHANGED <<books, run>>
  /\ UNCHANGED <<mergeVars, fnVars>>
  /\ runLabels' = <<>>
  /\ whitelist' = NoWhitelist
  /\ io' = <<>>

Next ==
  \/ \E file \in RunWhitelists : StartRun(file)
  \/ \E resOk \in BOOLEAN, a \in Archives : FetchArchive(resOk, a)
  \/ ZeroIsbns
  \/ LookupIssue
  \/ \E resOk \in BOOLEAN, r \in 0..(NumProfiles - 1) : LookupChunk(resOk, r)
  \/ PickAll
  \/ \E res \in ProbeResults : ProbeNdl(res)
  \/ \E res \in ProbeResults : ProbeOl(res)
  \/ ZeroItems
  \/ LoadExisting
  \/ WriteBooks
  \/ EndRun

Spec == Init /\ [][Next]_vars

----------------------------------------------------------------------------
(* The merge as a function: mergeRocketPencil applied to today-sets and     *)
(* prior-sets that the pipeline can produce                                 *)

\* fillMissingCovers when every NDL probe gets resNdl and every Open
\* Library probe gets resOl
fillMissingCovers(items, resNdl, resOl) ==
  [j \in 1..Len(items) |->
     LET it == items[j]
         isbn13 == normIsbn(it.isbn)
         ndl == probeImage(NDL_THUMB(isbn13), resNdl)
         ol == probeImage(OL_THUMB(isbn13), resOl)
     IN  IF ~NeedsProbe(it) THEN it
         ELSE IF Truthy(ndl) THEN [it EXCEPT !.cover = ndl]
         ELSE IF Truthy(ol) THEN [it EXCEPT !.cover = ol]
         ELSE it]

ProbeOk == [threw |-> FALSE, ok |-> TRUE, ct |-> <<"image/jpeg">>]

ProbeTimeout == [threw |-> TRUE, ok |-> FALSE, ct |-> <<>>]

\* itemsToday of a run on archive a when the service answers with profile r
TodayOf(a, r, resNdl, resOl) ==
  fillMissingCovers(
    Slice0(PickLoop(LookupResponse(ArchiveIsbns(a), r), ArchiveIsbns(a),
                    ArchivePubdates(a)), KEEP_TODAY),
    resNdl, resOl)

MergeArchives ==
  { [first |-> f, len |-> n, dated |-> (f % 2 = 1)] :
      f \in 1..MergeMaxFirst, n \in 0..MergeMaxLen }

MergeTodayInputs ==
  { TodayOf(a, r, res, ProbeTimeout) :
      a \in MergeArchives, r \in 0..(MergeProfiles - 1),
      res \in {ProbeOk, ProbeTimeout} }

\* what loadExistingItems returns for the document a first run wrote
MergePriorInputs ==
  { loadExistingItems(
      BooksDoc(1, mergeRocketPencil(TodayOf(a, r, ProbeTimeout, res), <<>>,
                                    MERGE_LIMIT))) :
      a \in MergeArchives, r \in 0..(MergeProfiles - 1),
      res \in {ProbeOk, ProbeTimeout} }

InitMerge ==
  /\ books = NoFile
  /\ pc = "idle"
  /\ run = 0
  /\ lastFetch = "none"
  /\ isbns = <<>>
  /\ pubdateByIsbn = EmptyMap
  /\ cursor = 0
  /\ openbd = <<>>
  /\ itemsToday = <<>>
  /\ probeIdx = 1
  /\ probeStage = "ndl"
  /\ existing = <<>>
  /\ outcome = "none"
  /\ requests = <<>>
  /\ pending = <<>>
  /\ probes = <<>>
  /\ lastProbe = "none"
  /\ io = <<>>
  /\ whitelist = NoWhitelist
  /\ runLabels = <<>>
  /\ mToday \in MergeTodayInputs
  /\ mPrior \in MergePriorInputs
  /\ mOut = <<>>
  /\ mAgain = <<>>
  /\ mpc = "ready"
  /\ fnArg = <<>>
  /\ fnOut = <<>>
  /\ fnpc = "off"

\* M = mergeRocketPencil(T, P, 8)
MergeApply ==
  /\ mpc = "ready"
  /\ mOut' = mergeRocketPencil(mToday, mPrior, MERGE_LIMIT)
  /\ mpc' = "merged"
  /\ UNCHANGED <<mToday, mPrior, mAgain>>
  /\ UNCHANGED <<runVars, fnVars>>

\* mergeRocketPencil(M, M, 8)
MergeAgain ==
  /\ mpc = "merged"
  /\ mAgain' = mergeRocketPencil(mOut, mOut, MERGE_LIMIT)
  /\ mpc' = "again"
  /\ UNCHANGED <<mToday, mPrior, mOut>>
  /\ UNCHANGED <<runVars, fnVars>>

\* the run is repeated with the same itemsToday: the merge of T with M
\* itself, or with what loadExistingItems returns for the document that
\* holds M
MergeRerun(viaFile) ==
  /\ mpc = "merged"
  /\ mAgain' = mergeRocketPencil(
                  mToday,
                  IF viaFile THEN loadExistingItems(BooksDoc(1, mOut))
                  ELSE mOut,
                  MERGE_LIMIT)
  /\ mpc' = IF viaFile THEN "reread" ELSE "rerun"
  /\ UNCHANGED <<mToday, mPrior, mOut>>
  /\ UNCHANGED <<runVars, fnVars>>

NextMerge ==
  \/ MergeApply
  \/ MergeAgain
  \/ \E viaFile \in BOOLEAN : MergeRerun(viaFile)

SpecMerge == InitMerge /\ [][NextMerge]_vars

----------------------------------------------------------------------------
(* isIsbn13Like applied on its own to identifier-like strings               *)

\* values of the run and merge variables while a function is applied alone
IdleRun ==
  /\ books = NoFile
  /\ pc = "idle"
  /\ run = 0
  /\ lastFetch = "none"
  /\ isbns = <<>>
  /\ pubdateByIsbn = EmptyMap
  /\ cursor = 0
  /\ openbd = <<>>
  /\ itemsToday = <<>>
  /\ probeIdx = 1
  /\ probeStage = "ndl"
  /\ existing = <<>>
  /\ outcome = "none"
  /\ requests = <<>>
  /\ pending = <<>>
  /\ probes = <<>>
  /\ lastProbe = "none"
  /\ io = <<>>
  /\ whitelist = NoWhitelist
  /\ runLabels = <<>>
  /\ mToday = <<>>
  /\ mPrior = <<>>
  /\ mOut = <<>>
  /\ mAgain = <<>>
  /\ mpc = "off"

\* positions 1..IsbnMaxEdit of a string are edited
IsbnMaxEdit == 3

FullWidth(c) ==
  CASE c = "0" -> "FW0" [] c = "1" -> "FW1" [] c = "2" -> "FW2"
    [] c = "3" -> "FW3" [] c = "4" -> "FW4" [] c = "5" -> "FW5"
    [] c = "6" -> "FW6" [] c = "7" -> "FW7" [] c = "8" -> "FW8"
    [] c = "9" -> "FW9" [] c = "X" -> "FWX" [] c = "x" -> "FWx"
    [] OTHER -> c

IsbnBases ==
  { CatalogId(7),
    <<"9", "7", "9">> \o SubSeq(CatalogId(7), 4, 13),
    <<"9", "7", "7">> \o SubSeq(CatalogId(7), 4, 13),
    SubSeq(CatalogId(7), 1, 12),
    CatalogId(7) \o <<"0">>,
    SubSeq(LegacyId(7), 1, 9) \o <<"X">> }

ReplaceAt(s, p, c) == [k \in 1..Len(s) |-> IF k = p THEN c ELSE s[k]]

InsertAt(s, p, c) == SubSeq(s, 1, p - 1) \o <<c>> \o SubSeq(s, p, Len(s))

IsbnEdits(s) ==
  {s}
  \cup { ReplaceAt(s, p, c) :
           p \in 1..IsbnMaxEdit, c \in {"-", "X", "a", "FW9"} }
  \cup { ReplaceAt(s, p, FullWidth(s[p])) : p \in 1..IsbnMaxEdit }
  \cup { InsertAt(s, p, c) : p \in 1..IsbnMaxEdit, c \in {"-", " ", "x"} }

IsbnInputs ==
  { pre \o body \o post :
      pre \in {<<>>, <<" ">>, <<"IDEOSPACE">>, <<"I", "S", "B", "N">>,
               <<"9">>},
      body \in UNION {IsbnEdits(b) : b \in IsbnBases},
      post \in {<<>>, <<" ">>, <<"TAB">>, <<"FWx">>} }

InitIsbn ==
  /\ IdleRun
  /\ fnArg \in IsbnInputs
  /\ fnOut = FALSE
  /\ fnpc = "ready"

ApplyIsIsbn13Like ==
  /\ fnpc = "ready"
  /\ fnOut' = isIsbn13Like(fnArg)
  /\ fnpc' = "applied"
  /\ UNCHANGED fnArg
  /\ UNCHANGED <<runVars, mergeVars>>

NextIsbn == ApplyIsIsbn13Like

SpecIsbn == InitIsbn /\ [][NextIsbn]_vars

----------------------------------------------------------------------------
(* extractIsbnsAndPubdateFromTrcText applied on its own to small archives   *)

\* an archive text has at most one heading line and ParseMaxRows other lines
ParseMaxRows == 3

ExId == <<"9", "7", "8", "4", "0", "0", "1", "2", "3", "4", "5", "6", "7">>

Foo == <<"F", "o", "o">>

Bar == <<"B", "a", "r">>

FullWidthOf(t) == [k \in 1..Len(t) |-> FullWidth(t[k])]

\* the first line of a text: a heading that names the identifier column
\* first, or second and in capitals, or not at all; a line without tab and
\* comma; a comma-separated heading; or a blank line, so that the first
\* line that counts is the first row
ParseHeaders ==
  { <<"i", "s", "b", "n", "TAB", "t", "i", "t", "l", "e">>,
    <<"t", "i", "t", "l", "e", "TAB", "I", "S", "B", "N">>,
    <<"c", "o", "d", "e", "TAB", "n", "a", "m", "e">>,
    <<"n", "e", "w", " ", "b", "o", "o", "k", "s">>,
    <<"i", "s", "b", "n", ",", "t", "i", "t", "l", "e">>,
    <<" ">> }

\* the other lines: identifier then label; label (with a NUL) then
\* identifier; an identifier inside free text after a cell that is none; a
\* label and a full-width identifier in one cell; identifier and another
\* label (with a carriage return); a hyphenated identifier; a
\* comma-separated line; a legacy identifier with a third, date column
ParseRows ==
  { ExId \o <<"TAB">> \o Foo,
    <<"F", "NUL", "o", "o", "TAB">> \o CatalogId(2),
    <<"n", "/", "a">> \o <<"TAB">> \o Foo \o <<" ">> \o CatalogId(3) \o <<" ", "x">>,
    Foo \o <<" ">> \o FullWidthOf(CatalogId(4)),
    CatalogId(5) \o <<"TAB">> \o Bar \o <<"CR">>,
    <<"9", "7", "8", "-", "4", "-", "0", "0", "-", "0", "0", "0", "0", "0", "0", "-", "6">> \o <<"TAB">> \o Foo,
    ExId \o <<",">> \o Foo,
    LegacyId(6) \o <<"TAB">> \o Foo \o <<"TAB">> \o TrcDate }

RECURSIVE SeqsUpTo(_, _)
SeqsUpTo(S, n) ==
  IF n = 0 THEN {<<>>}
  ELSE LET shorter == SeqsUpTo(S, n - 1)
       IN  shorter \cup {Append(q, x) : q \in shorter, x \in S}

\* a table longer than the sample of inferIsbnColumn: SAMPLE_ROWS rows
\* with a legacy identifier in the first column, then MIN_HITS rows with a
\* 13-digit identifier there
LongTable ==
  << <<"c", "o", "d", "e", "TAB", "n", "a", "m", "e">> >>
  \o [k \in 1..SAMPLE_ROWS |->
        LegacyId(6) \o <<"TAB">> \o Foo \o <<"TAB">> \o TrcDate]
  \o [k \in 1..MIN_HITS |-> CatalogId(k) \o <<"TAB">> \o Foo]

\* the k-th identifier of a list longer than the catalogue
LongId(k) ==
  <<"9", "7", "8", "4", "0", "0", "0", "0", "0">>
  \o <<Digits[((k \div 1000) % 10) + 1], Digits[((k \div 100) % 10) + 1],
       Digits[((k \div 10) % 10) + 1], Digits[(k % 10) + 1]>>

\* a table with one identifier more than main() takes
LongList ==
  << <<"i", "s", "b", "n", "TAB", "n", "a", "m", "e">> >>
  \o [k \in 1..(TAKE_ISBNS + 1) |-> LongId(k) \o <<"TAB">> \o Foo]

ParseTexts ==
  { <<h>> \o rows :
      h \in ParseHeaders, rows \in SeqsUpTo(ParseRows, ParseMaxRows) }
  \cup { LongTable, LongList }

ParseWhitelists ==
  { NoWhitelist,
    WhitelistDoc(<<Foo>>),
    WhitelistDoc(<<<<" ">>, Bar, <<"IDEOSPACE">> \o Bar>>) }

InitParse ==
  /\ IdleRun
  /\ fnArg \in [text : ParseTexts, whitelist : ParseWhitelists]
  /\ fnOut = <<>>
  /\ fnpc = "ready"

\* loadWhitelistLabels, then extractIsbnsAndPubdateFromTrcText(trcText, labels)
ApplyExtract ==
  /\ fnpc = "ready"
  /\ fnOut' = ExtractLocals(fnArg.text, loadWhitelistLabels(fnArg.whitelist))
  /\ fnpc' = "applied"
  /\ UNCHANGED fnArg
  /\ UNCHANGED <<runVars, mergeVars>>

\* const isbns = isbnsAll.slice(0, TAKE_ISBNS)
TakeIsbns ==
  /\ fnpc = "applied"
  /\ fnOut' = [x \in DOMAIN fnOut \cup {"taken"} |->
                IF x = "taken" THEN Slice0(fnOut.isbns, TAKE_ISBNS)
                ELSE fnOut[x]]
  /\ fnpc' = "taken"
  /\ UNCHANGED fnArg
  /\ UNCHANGED <<runVars, mergeVars>>

NextParse == ApplyExtract \/ TakeIsbns

SpecParse == InitParse /\ [][NextParse]_vars

----------------------------------------------------------------------------
(* pick applied on its own *)

OnixTitle == <<"onix title">>

HanmotoCover == <<"https://hanmoto.example/cover.jpg">>

OnixCover == <<"https://onix.example/cover.jpg">>

\* summary.isbn as the service may send it: missing, empty, the requested
\* identifier, another one, hyphenated, legacy, or without any digit
PickIsbns ==
  { NULL, <<>>, CatalogId(1), CatalogId(2),
    <<"9", "7", "8", "-", "4">> \o SubSeq(CatalogId(2), 5, 13),
    LegacyId(2), <<"-">>, <<"n", "/", "a">> }

PickEntries ==
  { NullObj }
  \cup { Entry(i, t, c, d, hc, ot, oc) :
           i \in PickIsbns,
           t \in {NULL, <<>>, TitleOf(1)},
           c \in {NULL, <<>>, CoverOf(1)},
           d \in {NULL, RawDate},
           hc \in {NULL, HanmotoCover},
           ot \in {NULL, OnixTitle},
           oc \in {NULL, OnixCover} }

PickInputs ==
  [entry : PickEntries,
   fallbackIsbn : {NULL, CatalogId(1)},
   trcPubdate : {NULL, TrcDate}]

InitPick ==
  /\ IdleRun
  /\ fnArg \in PickInputs
  /\ fnOut = NullObj
  /\ fnpc = "ready"

\* const b = pick(openbd[i], isbn, trcPd)
ApplyPick ==
  /\ fnpc = "ready"
  /\ fnOut' = pick(fnArg.entry, fnArg.fallbackIsbn, fnArg.trcPubdate)
  /\ fnpc' = "picked"
  /\ UNCHANGED fnArg
  /\ UNCHANGED <<runVars, mergeVars>>

NextPick == ApplyPick

SpecPick == InitPick /\ [][NextPick]_vars

----------------------------------------------------------------------------
(* Properties *)

IdsOf(items) == {items[i].isbn : i \in 1..Len(items)}

ZeroOutcomes == {"created_empty", "kept_no_isbns", "kept_no_items"}

\* C1: starting from an absent or empty collection, after any sequence of
\* runs (updated, zero-result or aborted) the persisted collection holds at
\* most 8 records.
C1_Capacity == Len(books.items) <= 8

\* a run wrote 8 records although today's and the prior records together
\* name more than 8 identifiers
C1_Witness ==
  /\ pc = "done"
  /\ outcome = "updated"
  /\ Len(books.items) = 8
  /\ Cardinality(IdsOf(itemsToday) \cup IdsOf(existing)) > 8

\* C2: a collection of k > 0 records is changed by no step of a run other
\* than the step that ends the run as updated; a run that ends with zero
\* records from extraction or from enrichment leaves the document as it was.
C2_ZeroRunKeeps ==
  [][(/\ books.exists
      /\ Len(books.items) > 0
      /\ (pc' # "done" \/ outcome' \in ZeroOutcomes))
     => books' = books]_vars

\* a run on a collection of k > 0 records has ended with zero records after
\* enrichment
C2_Witness ==
  /\ pc = "done"
  /\ outcome = "kept_no_items"
  /\ Len(isbns) > 0
  /\ books.exists
  /\ Len(books.items) > 0

\* C3: the persisted collection never holds fewer records after a step than
\* before it: it never shrinks across any sequence of runs.
C3_NeverShrinks == [][Len(books'.items) >= Len(books.items)]_vars

\* C4: no two records of the persisted collection have the same identifier.
C4_UniqueIds ==
  \A i, j \in 1..Len(books.items) :
    i # j => books.items[i].isbn # books.items[j].isbn

\* a run wrote the collection when today's records repeated an identifier
\* and shared an identifier with the prior collection
C4_Witness ==
  /\ pc = "done"
  /\ outcome = "updated"
  /\ \E i, j \in 1..Len(itemsToday) :
       i # j /\ itemsToday[i].isbn = itemsToday[j].isbn
  /\ IdsOf(itemsToday) \cap IdsOf(existing) # {}

\* the value the claim gives a merged field from today's and the prior value
HealedField(today, prior, merged) ==
  IF today # NULL THEN merged = today
  ELSE IF prior # NULL THEN merged = prior
  ELSE TRUE

\* the merged record with the identifier of today's record i has the healed
\* cover and date
HealedAt(i) ==
  \A p \in 1..Len(mPrior) :
    mPrior[p].isbn = mToday[i].isbn =>
      \E m \in 1..Len(mOut) :
        /\ mOut[m].isbn = mToday[i].isbn
        /\ HealedField(mToday[i].cover, mPrior[p].cover, mOut[m].cover)
        /\ HealedField(mToday[i].pubdate, mPrior[p].pubdate, mOut[m].pubdate)

\* every merged record whose identifier is not one of today's is a prior
\* record, field for field
PriorUntouched ==
  \A m \in 1..Len(mOut) :
    mOut[m].isbn \notin IdsOf(mToday) =>
      \E p \in 1..Len(mPrior) : mPrior[p] = mOut[m]

FirstOfItsId(items, i) == \A j \in 1..(i - 1) : items[j].isbn # items[i].isbn

\* C5 as stated: for every today record whose identifier occurs in the
\* prior collection, the merged record's cover and date are today's value
\* when present and the prior value otherwise; prior records are unchanged.
C5_HealsEveryToday ==
  mpc # "ready" =>
    /\ \A i \in 1..Len(mToday) : HealedAt(i)
    /\ PriorUntouched

\* C5 amended: the same for every today record that is the first of today's
\* list with its identifier.
C5_HealsFirstToday ==
  mpc # "ready" =>
    /\ \A i \in 1..Len(mToday) : FirstOfItsId(mToday, i) => HealedAt(i)
    /\ PriorUntouched

\* a merge in which an absent cover and an absent date of today were filled
\* from the prior collection and a cover present today differed from the
\* prior one
C5_Witness ==
  /\ mpc = "merged"
  /\ \E i \in 1..Len(mToday), p \in 1..Len(mPrior) :
       /\ FirstOfItsId(mToday, i)
       /\ mPrior[p].isbn = mToday[i].isbn
       /\ mToday[i].cover = NULL
       /\ mPrior[p].cover # NULL
  /\ \E i \in 1..Len(mToday), p \in 1..Len(mPrior) :
       /\ FirstOfItsId(mToday, i)
       /\ mPrior[p].isbn = mToday[i].isbn
       /\ mToday[i].pubdate = NULL
       /\ mPrior[p].pubdate # NULL
  /\ \E i \in 1..Len(mToday), p \in 1..Len(mPrior) :
       /\ FirstOfItsId(mToday, i)
       /\ mPrior[p].isbn = mToday[i].isbn
       /\ mToday[i].cover # NULL
       /\ mPrior[p].cover # NULL
       /\ mPrior[p].cover # mToday[i].cover

\* patched today records followed by the prior records
TodayThenPrior == patchedNew(mToday, mPrior) \o mPrior

\* the first n elements of a sequence with every element removed whose
\* identifier occurs at an earlier position
RECURSIVE FirstPerId(_, _)
FirstPerId(seq, n) ==
  IF n = 0 THEN <<>>
  ELSE IF FirstOfItsId(seq, n) THEN Append(FirstPerId(seq, n - 1), seq[n])
  ELSE FirstPerId(seq, n - 1)

ExA == CatalogId(1)

ExB == CatalogId(2)

ExC == CatalogId(3)

ExRecord(id, cover) ==
  [isbn |-> id, title |-> <<"title">>, cover |-> cover, pubdate |-> NULL,
   amazon |-> amazonUrlFromIsbn(id)]

\* C6: the merged collection is the first 8 elements of (patched today
\* records followed by prior records) with every later occurrence of an
\* identifier removed, order kept; prior=[A(no cover),B], today=[A(cover x),C]
\* gives [A(cover x),C,B].
C6_TodayFirstDedup ==
  /\ mpc # "ready" =>
       mOut = Slice0(FirstPerId(TodayThenPrior, Len(TodayThenPrior)), 8)
  /\ mergeRocketPencil(<<ExRecord(ExA, <<"x">>), ExRecord(ExC, NULL)>>,
                       <<ExRecord(ExA, NULL), ExRecord(ExB, NULL)>>, MERGE_LIMIT)
       = <<ExRecord(ExA, <<"x">>), ExRecord(ExC, NULL), ExRecord(ExB, NULL)>>

\* a merge that removed a repeated identifier, kept today's and prior
\* records, and cut the sequence at 8
C6_Witness ==
  /\ mpc = "merged"
  /\ Len(FirstPerId(TodayThenPrior, Len(TodayThenPrior))) > 8
  /\ Len(FirstPerId(TodayThenPrior, Len(TodayThenPrior))) < Len(TodayThenPrior)
  /\ \E n \in 1..Len(mOut) : mOut[n].isbn \notin IdsOf(mToday)
  /\ Len(mToday) > 0

\* C7: with M = merge(T, P), merge(M, M) = M: same records, same order,
\* same field values.
C7_Idempotent == mpc = "again" => mAgain = mOut

\* M was merged into itself, M holding today's and prior records, fewer
\* than 8 of them
C7_Witness ==
  /\ mpc = "again"
  /\ Len(mOut) > 1
  /\ Len(mOut) < 8
  /\ \E n \in 1..Len(mOut) : mOut[n].isbn \notin IdsOf(mToday)
  /\ \E n \in 1..Len(mOut) : mOut[n].isbn \in IdsOf(mToday)

\* C8: a step in which the archive retrieval or a lookup chunk fails aborts
\* the run and leaves the document as it was, and nothing is written
\* afterwards in that run.
C8_FailClosed ==
  [][/\ (lastFetch' = "failed") => (pc' = "aborted" /\ books' = books)
     /\ (lastFetch = "failed") => (books' = books /\ pc' = "idle")]_vars

\* the second lookup chunk failed after the first one had succeeded, in a
\* run on a collection that holds records
C8_Witness ==
  /\ pc = "aborted"
  /\ lastFetch = "failed"
  /\ Len(openbd) = OPENBD_CHUNK
  /\ Len(isbns) > OPENBD_CHUNK
  /\ Len(books.items) > 0

\* C9: every record of the persisted collection has an identifier matching
\* ^97[89]\d{10}$.
C9_StoredIdsValid ==
  \A i \in 1..Len(books.items) : MatchesIsbn13(books.items[i].isbn)

\* C10: when a run writes the merged collection, a prior record of the
\* document whose identifier is not in today's set is missing from it only
\* if the merged collection holds 8 records.
C10_PriorKeptBelowCapacity ==
  [][(pc = "merge" /\ pc' = "done") =>
       \A i \in 1..Len(books.items) :
         books.items[i].isbn \notin IdsOf(itemsToday) =>
           \/ books.items[i].isbn \in IdsOf(books'.items)
           \/ Len(books'.items) >= 8]_vars

\* the normalized form the claim names: compatibility-normalized, trimmed,
\* every character other than digits and X or x removed, upper-cased
C11_NormalForm(s) ==
  LET folded == Trim([k \in 1..Len(s) |-> NfkcChar(s[k])])
      Kept(c) == c \in {"0", "1", "2", "3", "4", "5", "6", "7", "8", "9",
                        "X", "x"}
      kept == SelectSeq(folded, Kept)
  IN  [k \in 1..Len(kept) |-> IF kept[k] = "x" THEN "X" ELSE kept[k]]

\* ^97[89]\d{10}$ as the claim writes it
C11_IsIdentifier(t) ==
  /\ Len(t) = 13
  /\ SubSeq(t, 1, 2) = <<"9", "7">>
  /\ t[3] \in {"8", "9"}
  /\ \A k \in 4..13 :
       t[k] \in {"0", "1", "2", "3", "4", "5", "6", "7", "8", "9"}

\* C11: for every input string s, isIsbn13Like(s) is true iff the normalized
\* form of s matches ^97[89]\d{10}$.
C11_IsIsbn13Like ==
  fnpc = "applied" => (fnOut <=> C11_IsIdentifier(C11_NormalForm(fnArg)))

\* the test accepted a string that is not itself an identifier: it holds a
\* full-width character and more than 13 characters
C11_Witness ==
  /\ fnpc = "applied"
  /\ fnOut
  /\ Len(fnArg) > 13
  /\ \E k \in 1..Len(fnArg) : NfkcChar(fnArg[k]) # fnArg[k]

\* a header cell that contains "isbn" in any mix of cases
C12_IsIsbnLabel(cell) ==
  \E p \in 1..(Len(cell) - 3) :
    /\ cell[p] \in {"i", "I"}
    /\ cell[p + 1] \in {"s", "S"}
    /\ cell[p + 2] \in {"b", "B"}
    /\ cell[p + 3] \in {"n", "N"}

\* "isbn<TAB>title<NL>9784001234567<TAB>Foo"
C12_Example ==
  << <<"i", "s", "b", "n", "TAB", "t", "i", "t", "l", "e">>,
     <<"9", "7", "8", "4", "0", "0", "1", "2", "3", "4", "5", "6", "7",
       "TAB", "F", "o", "o">> >>

\* C12: when a header cell contains "isbn" (in any case), the identifier
\* column is the index of the first such cell, whatever the data rows hold;
\* for "isbn<TAB>title<NL>9784001234567<TAB>Foo" the delimiter is tab, the
\* first line is the header and the identifier column is index 0.
C12_HeaderLabelWins ==
  (fnpc = "applied" /\ Len(fnOut.lines) > 0) =>
    LET labelled == {c \in 0..(Len(fnOut.header) - 1) :
                       C12_IsIsbnLabel(fnOut.header[c + 1])}
    IN  /\ labelled # {} =>
             /\ fnOut.isbnCol \in labelled
             /\ \A c \in labelled : fnOut.isbnCol <= c
        /\ fnArg.text = C12_Example =>
             /\ fnOut.delim = "TAB"
             /\ fnOut.header = <<<<"i", "s", "b", "n">>,
                                 <<"t", "i", "t", "l", "e">>>>
             /\ fnOut.rows = <<<<ExId, Foo>>>>
             /\ fnOut.isbnCol = 0

\* the header names the second column while three data rows hold an
\* identifier in the first column
C12_Witness ==
  /\ fnpc = "applied"
  /\ Len(fnOut.header) = 2
  /\ C12_IsIsbnLabel(fnOut.header[2])
  /\ ~C12_IsIsbnLabel(fnOut.header[1])
  /\ fnOut.isbnCol = 1
  /\ Cardinality({k \in 1..Len(fnOut.rows) :
                    C11_IsIdentifier(fnOut.rows[k][1])}) >= 3

\* the first substring of t that matches 97[89] followed by 10 digits; the
\* empty string when there is none
C13_FirstMatch(t) ==
  LET hits == {p \in 1..(Len(t) - 12) :
                 C11_IsIdentifier(SubSeq(t, p, p + 12))}
  IN  IF hits = {} THEN <<>>
      ELSE LET first == CHOOSE p \in hits : \A q \in hits : p <= q
           IN  SubSeq(t, first, first + 12)

\* row k was admitted, and its identifier column is unresolved or its cell
\* in that column is not a valid identifier
C13_FallsBack(k) ==
  /\ fnOut.perRow[k].admitted
  /\ \/ fnOut.isbnCol = -1
     \/ ~C11_IsIdentifier(C11_NormalForm(fnOut.rows[k][fnOut.isbnCol + 1]))

\* the joined text of a row as the search sees it: as it is, or
\* compatibility-normalized and trimmed
C13_SearchText(t, normalized) ==
  IF normalized THEN Trim([k \in 1..Len(t) |-> NfkcChar(t[k])]) ELSE t

\* the identifier of every row that falls back is the first match in its
\* joined text, it is in the output, and the row is rejected when there is
\* no match
C13_Scrapes(normalized) ==
  fnpc = "applied" =>
    \A k \in 1..Len(fnOut.rows) :
      C13_FallsBack(k) =>
        LET found == C13_FirstMatch(
                       C13_SearchText(JoinTab(fnOut.rows[k]), normalized))
        IN  /\ fnOut.perRow[k].isbn = found
            /\ found # <<>> => \E n \in 1..Len(fnOut.isbns) :
                                 fnOut.isbns[n] = found

\* C13 as stated: for every admitted row whose identifier column is
\* unresolved or whose cell is not a valid identifier, the row's identifier
\* is the first substring of the row's joined text matching 97[89] and 10
\* digits, and the row is rejected only if there is no such substring.
C13_ScrapesJoinedText == C13_Scrapes(FALSE)

\* C13 amended: the same with the joined text compatibility-normalized and
\* trimmed before the search.
C13_ScrapesNormalizedText == C13_Scrapes(TRUE)

\* no column is resolved; one admitted row yields the identifier found in
\* its free text, one yields an identifier written in full-width digits,
\* and one is rejected
C13_Witness ==
  /\ fnpc = "applied"
  /\ fnOut.isbnCol = -1
  /\ \E k \in 1..Len(fnOut.rows) :
       /\ C13_FallsBack(k)
       /\ fnOut.perRow[k].isbn # <<>>
       /\ C13_FirstMatch(JoinTab(fnOut.rows[k])) = fnOut.perRow[k].isbn
  /\ \E k \in 1..Len(fnOut.rows) :
       /\ C13_FallsBack(k)
       /\ fnOut.perRow[k].isbn # <<>>
       /\ C13_FirstMatch(JoinTab(fnOut.rows[k])) = <<>>
  /\ \E k \in 1..Len(fnOut.rows) :
       /\ C13_FallsBack(k)
       /\ fnOut.perRow[k].isbn = <<>>

\* the probes issued for today's record j, in the order they were issued
C14_ProbesOf(j) ==
  LET IsOfRecord(e) == e.idx = j
  IN  SelectSeq(probes, IsOfRecord)

\* the sources and verdicts of the probes of record j
C14_Verdicts(j) ==
  LET log == C14_ProbesOf(j)
  IN  [n \in 1..Len(log) |-> <<log[n].src, log[n].accepted>>]

\* the probes of every record are a prefix of "first endpoint, then second
\* endpoint" that ends at the first accepted probe; an accepted URL is the
\* record's cover; after two rejections the cover is absent
C14_OrderOnProbed ==
  \A j \in 1..Len(itemsToday) :
    LET log == C14_ProbesOf(j)
        verdicts == C14_Verdicts(j)
    IN  /\ verdicts \in { <<>>,
                          << <<"ndl", TRUE>> >>,
                          << <<"ndl", FALSE>> >>,
                          << <<"ndl", FALSE>>, <<"ol", TRUE>> >>,
                          << <<"ndl", FALSE>>, <<"ol", FALSE>> >> }
        /\ \A n \in 1..Len(log) :
             log[n].accepted => itemsToday[j].cover = log[n].url
        /\ verdicts = << <<"ndl", FALSE>>, <<"ol", FALSE>> >>
             => ~Truthy(itemsToday[j].cover)

\* once fillMissingCovers has returned, every record whose cover is absent
\* was probed at both endpoints
C14_EveryAbsentProbed ==
  pc \in {"merge", "done"} =>
    \A j \in 1..Len(itemsToday) :
      ~Truthy(itemsToday[j].cover) =>
        C14_Verdicts(j) = << <<"ndl", FALSE>>, <<"ol", FALSE>> >>

\* a step that issues a probe issues it for a record whose cover is absent
C14_NeverProbesCovered ==
  probes' # probes /\ pc = "covers" =>
    ~Truthy(itemsToday[probes'[Len(probes')].idx].cover)

\* C14: for each of today's kept records with an absent cover the probes are
\* attempted in the order first endpoint, second endpoint; the second only
\* after the first was rejected, none after an accepted one; the accepted
\* URL becomes the cover and two rejections leave it absent; a record that
\* has a cover is never probed.
C14_ProbeOrder ==
  [][/\ C14_OrderOnProbed'
     /\ C14_EveryAbsentProbed'
     /\ C14_NeverProbesCovered]_vars

\* the last probe timed out or failed in transport, or came back with a
\* non-success status, or with a content type that is not an image
C15_Failures == {"threw", "status", "type"}

\* C15: a cover probe that times out, fails at transport level, returns a
\* non-success status or a non-image content type yields no cover from that
\* source only: the run goes on to the next source or the next record, and
\* a run that has probed is never aborted and ends only by writing the
\* merged collection.
C15_ProbeFailureAbsorbed ==
  [][/\ (probes' # probes /\ lastProbe' \in C15_Failures) =>
          LET e == probes'[Len(probes')]
          IN  /\ ~e.accepted
              /\ itemsToday' = itemsToday
              /\ pc' = "covers"
              /\ outcome' = outcome
              /\ books' = books
              /\ IF e.src = "ndl"
                 THEN probeStage' = "ol" /\ probeIdx' = probeIdx
                 ELSE probeStage' = "ndl" /\ probeIdx' > probeIdx
     /\ probes' # <<>> =>
          /\ pc' \in {"covers", "merge", "done"}
          /\ pc' = "done" =>
               (outcome' = "updated" /\ books'.generated_at = run')]_vars

\* a run wrote the collection after the first endpoint had been rejected
\* for a record whose cover the second endpoint then supplied, and after
\* both endpoints had been rejected for another record
C15_Witness ==
  /\ pc = "done"
  /\ outcome = "updated"
  /\ \E j \in 1..Len(itemsToday) :
       C14_Verdicts(j) = << <<"ndl", FALSE>>, <<"ol", TRUE>> >>
  /\ \E j \in 1..Len(itemsToday) :
       C14_Verdicts(j) = << <<"ndl", FALSE>>, <<"ol", FALSE>> >>

\* the argument of pick is a present result whose primary title field or,
\* failing that, whose nested alternate title field is non-empty
C16_TitleRecoverable ==
  /\ ~fnArg.entry.isNull
  /\ \/ fnArg.entry.summary.title \notin {NULL, <<>>}
     \/ fnArg.entry.onixTitle \notin {NULL, <<>>}

\* the title the claim recovers
C16_Title ==
  IF fnArg.entry.summary.title \notin {NULL, <<>>}
  THEN fnArg.entry.summary.title
  ELSE fnArg.entry.onixTitle

\* none of the three cover fields of the result is non-empty
C16_NoCover ==
  /\ fnArg.entry.summary.cover \in {NULL, <<>>}
  /\ fnArg.entry.hanmotoCover \in {NULL, <<>>}
  /\ fnArg.entry.onixCover \in {NULL, <<>>}

\* the identifier of the result (the summary's when it is non-empty, else
\* the requested one) holds a digit or an X
C16_IdRecoverable ==
  /\ ~fnArg.entry.isNull
  /\ LET id == IF fnArg.entry.summary.isbn \notin {NULL, <<>>}
               THEN fnArg.entry.summary.isbn
               ELSE fnArg.fallbackIsbn
     IN  /\ id # NULL
         /\ \E k \in 1..Len(id) : IsDigit(id[k]) \/ id[k] \in {"X", "x"}

\* the record, when there is one, carries the recovered title, and an
\* absent cover when no cover is recoverable
C16_RecordShape ==
  fnOut # NullObj =>
    /\ fnOut.title = C16_Title
    /\ C16_NoCover => fnOut.cover = NULL

\* C16 (as stated): for every lookup result a record is produced iff the
\* result is present and a title can be recovered (primary title field,
\* else the alternate nested title field); a result with a title and no
\* recoverable cover produces a record whose cover is absent.
C16_RecordIffTitle ==
  fnpc = "picked" =>
    /\ (fnOut # NullObj) <=> C16_TitleRecoverable
    /\ C16_RecordShape

\* C16 (amended): a record is produced iff the result is present, a title
\* can be recovered and the identifier (the summary's, else the requested
\* one) keeps at least one digit or X; a result with a title, such an
\* identifier and no recoverable cover produces a record with cover absent.
C16_RecordIffTitleAndId ==
  fnpc = "picked" =>
    /\ (fnOut # NullObj) <=> (C16_TitleRecoverable /\ C16_IdRecoverable)
    /\ C16_RecordShape

\* a result with only the alternate title and no cover in any field has
\* produced a record with that title and an absent cover
C16_Witness ==
  /\ fnpc = "picked"
  /\ fnArg.entry.isNull = FALSE
  /\ fnArg.entry.summary.title = NULL
  /\ fnArg.entry.onixTitle = OnixTitle
  /\ C16_NoCover
  /\ fnOut # NullObj
  /\ fnOut.title = OnixTitle
  /\ fnOut.cover = NULL

\* the k-th of the consecutive chunks of at most 100 identifiers of ids
C17_Chunk(ids, k) ==
  [j \in 1..(IF 100 * k <= Len(ids) THEN 100 ELSE Len(ids) - 100 * (k - 1))
     |-> ids[100 * (k - 1) + j]]

\* the number of identifiers named by the first n lookups
C17_Asked(n) == IF 100 * n <= Len(isbns) THEN 100 * n ELSE Len(isbns)

\* a step that issues a lookup issues one, for the next chunk of the
\* identifier list, while none is outstanding and the responses to all
\* earlier chunks are held
C17_IssuesNextChunk ==
  requests' # requests =>
    \/ requests' = <<>>
    \/ /\ pending = <<>>
       /\ Len(openbd) = C17_Asked(Len(requests))
       /\ requests' = Append(requests, C17_Chunk(isbns, Len(requests) + 1))
       /\ Len(requests'[Len(requests')]) \in 1..100
       /\ pending' = <<requests'[Len(requests')]>>
       /\ isbns' = isbns

\* the identifier list does not change while lookups are on record
C17_ListIsFixed == isbns' # isbns => requests' = <<>>

\* at most one lookup is outstanding: the last one issued
C17_OneOutstanding ==
  /\ Len(pending) <= 1
  /\ pending # <<>> =>
       pc = "await" /\ requests # <<>> /\ pending[1] = requests[Len(requests)]
  /\ pc = "await" => pending # <<>>

\* a step that receives a response appends it to the results held: one
\* result for each identifier of the outstanding chunk, in its order
C17_AppendsResponse ==
  (pc = "await" /\ openbd' # openbd) =>
    /\ Len(openbd') = Len(openbd) + Len(pending[1])
    /\ SubSeq(openbd', 1, Len(openbd)) = openbd
    /\ \E r \in 0..(NumProfiles - 1) :
         \A j \in 1..Len(pending[1]) :
           openbd'[Len(openbd) + j] =
             ServiceEntry(CatalogIndex(pending[1][j]), r)
    /\ pending' = <<>>

\* while the batch lookup runs, one result is held for each identifier of
\* the answered lookups
C17_ResponsesInOrder ==
  pc \in {"lookup", "await"} =>
    Len(openbd) = C17_Asked(Len(requests) - Len(pending))

\* once the batch lookup has returned, every chunk was asked exactly once
C17_OnePerChunk ==
  pc \in {"covers", "merge", "done"} =>
    /\ pending = <<>>
    /\ C17_Asked(Len(requests)) = Len(isbns)
    /\ Len(isbns) > 100 * (Len(requests) - 1)

\* C17: the batch lookup splits the identifier list, in order, into
\* consecutive chunks of at most 100 identifiers and issues one lookup per
\* chunk, one at a time: a lookup is issued only when none is outstanding
\* and the responses to all earlier chunks are held, at most one lookup is
\* ever outstanding, and the responses are concatenated in chunk order.
C17_SequentialChunks ==
  [][/\ C17_IssuesNextChunk
     /\ C17_ListIsFixed
     /\ C17_OneOutstanding'
     /\ C17_AppendsResponse
     /\ C17_ResponsesInOrder'
     /\ C17_OnePerChunk']_vars

\* a list of more than 100 identifiers has been looked up in two chunks,
\* the second one issued after the 100 results of the first were held
C17_Witness ==
  /\ pc = "lookup"
  /\ Len(isbns) > 100
  /\ Len(requests) = 2
  /\ Len(requests[1]) = 100
  /\ requests[2] = SubSeq(isbns, 101, Len(isbns))
  /\ pending = <<>>
  /\ Len(openbd) = Len(isbns)

\* the first line that counts, the one the delimiter is detected on, holds
\* neither a tab nor a comma
C18_NoDelimiterSeen ==
  /\ fnpc = "applied"
  /\ fnOut.lines # <<>>
  /\ \A p \in 1..Len(fnOut.lines[1]) : fnOut.lines[1][p] \notin {"TAB", ","}

C18_CarriedBy(k) ==
  {C13_FirstMatch(C13_SearchText(JoinTab(fnOut.rows[k]), TRUE))}
  \cup {C11_NormalForm(fnOut.rows[k][c]) : c \in 1..Len(fnOut.rows[k])}

C19_HeaderWords ==
  { <<"t", "i", "t", "l", "e">>, <<"l", "a", "b", "e", "l">>,
    <<"s", "e", "r", "i", "e", "s">>,
    <<"p", "u", "b", "l", "i", "s", "h", "e", "r">> }

\* a line resembles a heading: it holds the identifier keyword in any case,
\* or one of the heading words
C19_LooksLikeHeader(line) ==
  \/ Includes(toLowerCase(line), <<"i", "s", "b", "n">>)
  \/ \E w \in C19_HeaderWords : Includes(toLowerCase(line), w)

\* the first line that counts does not resemble a heading, the whitelist
\* admits it, and its normalized text holds a 13-digit reserved-prefix run
C19_FirstLineIsData ==
  /\ fnpc = "applied"
  /\ fnOut.lines # <<>>
  /\ ~C19_LooksLikeHeader(fnOut.lines[1])
  /\ lineHasAnyLabel(fnOut.lines[1], loadWhitelistLabels(fnArg.whitelist))
  /\ C13_FirstMatch(C13_SearchText(fnOut.lines[1], TRUE)) # <<>>

\* C19: the first non-empty line is excluded from the data rows only if it
\* resembles a header; otherwise every line, the first included, is a data
\* row and contributes its identifier to the extraction output.
C19_FirstLineKeptUnlessHeader ==
  C19_FirstLineIsData =>
    /\ Len(fnOut.rows) = Len(fnOut.lines)
    /\ \E n \in 1..Len(fnOut.isbns) :
         fnOut.isbns[n] =
           C13_FirstMatch(C13_SearchText(fnOut.lines[1], TRUE))

\* no cell of the header holds the identifier keyword, and there are rows
C20_NoHeaderMatch ==
  /\ fnpc = "applied"
  /\ fnOut.rows # <<>>
  /\ \A c \in 1..Len(fnOut.header) : ~C12_IsIsbnLabel(fnOut.header[c])

\* the rows of the first 200 whose cell in column c (0-based) normalizes to
\* a 13-digit reserved-prefix identifier
C20_Hits13(c) ==
  {k \in 1..Len(fnOut.rows) :
     k <= 200 /\ C11_IsIdentifier(C11_NormalForm(fnOut.rows[k][c + 1]))}

\* the rows of the first 200 whose cell in column c has the plausible
\* legacy form: nine digits and a digit or X
C20_Hits10(c) ==
  {k \in 1..Len(fnOut.rows) :
     /\ k <= 200
     /\ LET t == C11_NormalForm(fnOut.rows[k][c + 1])
        IN  /\ Len(t) = 10
            /\ \A p \in 1..9 : IsDigit(t[p])
            /\ IsDigit(t[10]) \/ t[10] = "X"}

C20_Columns == 0..(Len(fnOut.header) - 1)

\* +3 per 13-digit cell, +1 per legacy cell
C20_Score(c) == 3 * Cardinality(C20_Hits13(c)) + Cardinality(C20_Hits10(c))

\* C20 (as stated): when no header cell matches, each column is scored
\* over at most the first 200 data rows with +3 per 13-digit cell and +1
\* per legacy cell; a column with the highest total is chosen, and it is
\* resolved iff that total is at least 5, otherwise unresolved.
C20_ScoredColumn ==
  C20_NoHeaderMatch =>
    LET top == MaxOf({0} \cup {C20_Score(c) : c \in C20_Columns})
    IN  IF top >= 5
        THEN fnOut.isbnCol \in C20_Columns /\ C20_Score(fnOut.isbnCol) = top
        ELSE fnOut.isbnCol = -1

\* C20 (amended): when no header cell matches, each column is given the
\* number of cells, over at most the first 200 data rows, whose normalized
\* form is a 13-digit reserved-prefix identifier; the first column with the
\* highest count is chosen, and it is resolved iff that count is at least
\* 3, otherwise unresolved.
C20_CountedColumn ==
  C20_NoHeaderMatch =>
    LET top == MaxOf({0} \cup {Cardinality(C20_Hits13(c)) : c \in C20_Columns})
    IN  IF top >= 3
        THEN /\ fnOut.isbnCol \in C20_Columns
             /\ Cardinality(C20_Hits13(fnOut.isbnCol)) = top
             /\ \A c \in C20_Columns :
                  Cardinality(C20_Hits13(c)) = top => fnOut.isbnCol <= c
        ELSE fnOut.isbnCol = -1

\* without a header match, the first column was chosen on three cells, one
\* of them hyphenated
C20_Witness ==
  /\ C20_NoHeaderMatch
  /\ fnOut.isbnCol = 0
  /\ Cardinality(C20_Hits13(0)) = 3
  /\ \E k \in C20_Hits13(0) : ~C11_IsIdentifier(fnOut.rows[k][1])

\* the WhitelistTags of the run: the entries of the allow-list, normalized,
\* the empty ones left out; none when the file cannot be read
C21_Tags ==
  IF ~fnArg.whitelist.readable THEN {}
  ELSE { C13_SearchText(fnArg.whitelist.label_includes_any[k], TRUE) :
           k \in 1..Len(fnArg.whitelist.label_includes_any) } \ {<<>>}

\* the normalized joined text of data row k holds a tag as a substring
C21_Tagged(k) ==
  LET t == C13_SearchText(JoinTab(fnOut.rows[k]), TRUE)
  IN  \E tag \in C21_Tags :
        \E p \in 1..(Len(t) - Len(tag) + 1) :
          SubSeq(t, p, p + Len(tag) - 1) = tag

\* data row k contains the identifier: in its cell of the identifier
\* column, or in its normalized joined text
C21_Carries(k, id) ==
  \/ /\ fnOut.isbnCol # -1
     /\ C11_NormalForm(fnOut.rows[k][fnOut.isbnCol + 1]) = id
  \/ LET t == C13_SearchText(JoinTab(fnOut.rows[k]), TRUE)
     IN  \E p \in 1..(Len(t) - 12) : SubSeq(t, p, p + 12) = id

\* C21: an identifier is in the extraction output only if some data row
\* that contains it (in the identifier column or in its text) holds at
\* least one WhitelistTag as a substring of its normalized joined text; a
\* row without any tag never contributes, even when its identifier is valid.
C21_LabelOnly ==
  fnpc = "applied" =>
    \A n \in 1..Len(fnOut.isbns) :
      \E k \in 1..Len(fnOut.rows) :
        C21_Tagged(k) /\ C21_Carries(k, fnOut.isbns[n])

\* a row without a tag holds a valid identifier in its first cell, that
\* identifier is not in the output, and a tagged row has contributed
C21_Witness ==
  /\ fnpc = "applied"
  /\ fnOut.isbns # <<>>
  /\ \E k \in 1..Len(fnOut.rows) :
       /\ ~C21_Tagged(k)
       /\ C11_IsIdentifier(fnOut.rows[k][1])
       /\ \A n \in 1..Len(fnOut.isbns) : fnOut.isbns[n] # fnOut.rows[k][1]

\* d is a normalized date: YYYY/MM or YYYY/MM/DD
C22_IsDate(d) ==
  /\ d # NULL
  /\ Len(d) \in {7, 10}
  /\ \A p \in 1..Len(d) : IF p \in {5, 8} THEN d[p] = "/" ELSE IsDigit(d[p])

\* the date a value parses to; NULL when it does not parse to a date
C22_Parse(x) ==
  LET d == formatPubdateMin(x) IN IF C22_IsDate(d) THEN d ELSE NULL

\* the date of data row k: the value of the date column when there is one
\* and it parses, else a date found by scanning the row
C22_RowDate(k) ==
  LET r == fnOut.rows[k]
      byCol == IF fnOut.pubCol # -1 THEN C22_Parse(r[fnOut.pubCol + 1])
               ELSE NULL
      m8 == Match8(JoinTab(r))
      mYmd == MatchYmd(JoinTab(r))
  IN  IF byCol # NULL THEN byCol
      ELSE IF m8 # NULL /\ C22_Parse(m8) # NULL THEN C22_Parse(m8)
      ELSE IF mYmd # NULL THEN C22_Parse(mYmd)
      ELSE NULL

\* the data rows that were admitted and yielded the identifier
C22_RowsOf(id) ==
  {k \in 1..Len(fnOut.rows) :
     fnOut.perRow[k].admitted /\ fnOut.perRow[k].isbn = id}

C22_First(S) == CHOOSE k \in S : \A j \in S : k <= j

\* each identifier once, in the order of its first admitted row
C22_OnceInRowOrder ==
  /\ Cardinality({fnOut.isbns[n] : n \in 1..Len(fnOut.isbns)})
       = Len(fnOut.isbns)
  /\ \A n \in 1..Len(fnOut.isbns) :
       /\ C22_RowsOf(fnOut.isbns[n]) # {}
       /\ n > 1 => C22_First(C22_RowsOf(fnOut.isbns[n - 1]))
                     < C22_First(C22_RowsOf(fnOut.isbns[n]))
  /\ \A k \in 1..Len(fnOut.rows) :
       (fnOut.perRow[k].admitted /\ fnOut.perRow[k].isbn # <<>>)
         => \E n \in 1..Len(fnOut.isbns) :
              fnOut.isbns[n] = fnOut.perRow[k].isbn

\* the list handed on holds the first identifiers, 1200 at most
C22_AtMost1200 ==
  /\ Len(fnOut.taken) <= 1200
  /\ Len(fnOut.taken) <= Len(fnOut.isbns)
  /\ Len(fnOut.taken) = Len(fnOut.isbns) \/ Len(fnOut.taken) = 1200
  /\ \A n \in 1..Len(fnOut.taken) : fnOut.taken[n] = fnOut.isbns[n]

\* the date attached to an identifier is the date of its first admitted
\* row that has one; an identifier without such a row has no date
C22_FirstDateWins ==
  \A n \in 1..Len(fnOut.isbns) :
    LET id == fnOut.isbns[n]
        dated == {k \in C22_RowsOf(id) : C22_RowDate(k) # NULL}
    IN  IF dated = {} THEN id \notin DOMAIN fnOut.pubdateByIsbn
        ELSE /\ id \in DOMAIN fnOut.pubdateByIsbn
             /\ fnOut.pubdateByIsbn[id] = C22_RowDate(C22_First(dated))

\* C22: the extraction output lists each identifier exactly once, in the
\* order of its first admitted row, and holds at most 1200 identifiers;
\* the publication date attached to an identifier is the date of the first
\* admitted row for that identifier that yields a parseable date (column
\* value first, else a date found by scanning the row), and later rows
\* never overwrite it.
C22_OrderedOnceFirstDate ==
  fnpc = "taken" =>
    /\ C22_OnceInRowOrder
    /\ C22_AtMost1200
    /\ C22_FirstDateWins

\* the steps of a run that reach outside other than for the collection:
\* archive retrieval, metadata lookups, cover probes
C23_Outside == {"archive", "lookup", "probe"}

\* the positions of the run's log that hold step x
C23_At(x) == {p \in 1..Len(io) : io[p] = x}

\* the write of the collection, when it happens, is the last step of the
\* run and happens once
C23_WriteLastOnce ==
  /\ Cardinality(C23_At("write")) <= 1
  /\ \A p \in C23_At("write") : p = Len(io)

\* C23 (as stated): in every run the prior collection is read before any
\* other I/O step of the run (archive retrieval, metadata lookups, cover
\* probes), and the write of the collection, when it happens, is the last
\* I/O step of the run and happens at most once.
C23_ReadFirstWriteLast ==
  /\ \A p \in 1..Len(io) :
       io[p] \in C23_Outside => \E q \in C23_At("read") : q < p
  /\ C23_WriteLastOnce

\* C23 (amended): in every run the prior collection is read at most once
\* and after every archive retrieval, metadata lookup and cover probe of
\* the run, immediately before the write; a run that does not merge never
\* reads it and at most tests that it exists; the write, when it happens,
\* is the last I/O step of the run and happens at most once.
C23_ReadLateWriteLast ==
  /\ Cardinality(C23_At("read")) <= 1
  /\ \A p \in C23_At("read") :
       /\ \A q \in 1..Len(io) : io[q] \in C23_Outside => q < p
       /\ \E q \in 1..(p - 1) : io[q] = "archive"
       /\ p = Len(io) \/ (p + 1 = Len(io) /\ io[p + 1] = "write")
  /\ \A p \in C23_At("write") :
       p > 1 /\ io[p - 1] \in {"read", "exists"}
  /\ (pc = "done" /\ outcome = "updated") =>
       (C23_At("read") # {} /\ C23_At("write") # {})
  /\ (pc = "done" /\ outcome # "updated") => C23_At("read") = {}
  /\ C23_WriteLastOnce

\* a run has retrieved the archive, looked up metadata, probed a cover,
\* then read the collection and written it
C23_Witness ==
  /\ pc = "done"
  /\ outcome = "updated"
  /\ C23_At("lookup") # {}
  /\ C23_At("probe") # {}
  /\ Len(io) >= 2
  /\ io[Len(io) - 1] = "read"
  /\ io[Len(io)] = "write"

\* today's set names no identifier twice
C24_NoRepeat ==
  \A n, m \in 1..Len(mToday) :
    n # m => normIsbn(mToday[n].isbn) # normIsbn(mToday[m].isbn)

\* C24: for every today-set T without repeated identifiers and every prior
\* collection P, with M = merge(T, P), merge(T, M) = M; a repeated run,
\* which merges the same T into the collection read back from the document
\* that holds M, writes the same records in the same order.
C24_RerunStable ==
  (mpc \in {"rerun", "reread"} /\ C24_NoRepeat) => mAgain = mOut

\* T was merged again into an M that holds healed records of T and records
\* that only the prior collection had
C24_Witness ==
  /\ mpc = "reread"
  /\ C24_NoRepeat
  /\ Len(mToday) > 1
  /\ mAgain = mOut
  /\ \E n \in 1..Len(mToday) : mOut[n] # mToday[n]
  /\ \E n \in 1..Len(mOut) : mOut[n].isbn \notin IdsOf(mToday)

\* C25: when no persisted collection exists, the two zero-result outcomes
\* differ: a run whose extraction yields zero identifiers writes a
\* collection with an empty record list, while a run that extracts
\* identifiers but gets zero records from enrichment writes nothing and
\* leaves the collection absent.
C25_ZeroOutcomesDiffer ==
  [][(~books.exists /\ pc # "done" /\ pc' = "done") =>
       /\ Len(isbns) = 0 =>
            /\ books'.exists
            /\ books'.items = <<>>
            /\ books'.generated_at = run
            /\ io'[Len(io')] = "write"
       /\ (Len(isbns) > 0 /\ Len(itemsToday) = 0) =>
            /\ books' = books
            /\ \A p \in 1..Len(io') : io'[p] # "write"]_vars

\* a run without a persisted collection has looked up identifiers, got no
\* record, and ended with the collection still absent
C25_Witness ==
  /\ pc = "done"
  /\ ~books.exists
  /\ Len(isbns) > 0
  /\ requests # <<>>
  /\ Len(itemsToday) = 0

\* the whitelist the run found is missing or unparseable, or no entry of
\* its label list is more than blanks
C26_NoUsableLabel(file) ==
  \/ ~file.readable
  \/ \A k \in 1..Len(file.label_includes_any) :
       normStr(file.label_includes_any[k]) = <<>>

\* C26: if the whitelist is missing, unparseable or empty, every run
\* extracts zero identifiers whatever the source text contains: no metadata
\* lookup and no cover probe is issued, and an existing persisted
\* collection is left unchanged.
C26_NoWhitelistNoWork ==
  [][(C26_NoUsableLabel(whitelist') /\ pc' # "idle") =>
       /\ isbns' = <<>>
       /\ requests' = <<>>
       /\ probes' = <<>>
       /\ \A p \in 1..Len(io') : io'[p] \notin {"lookup", "probe"}
       /\ pc' \in {"fetch", "zero", "done", "aborted"}
       /\ books.exists => books' = books]_vars

\* a run that found a whitelist with only a blank label has retrieved the
\* archive and ended, the collection of earlier runs still holding records
C26_Witness ==
  /\ pc = "done"
  /\ whitelist = WhitelistDoc(<< <<" ">> >>)
  /\ lastFetch = "ok"
  /\ io = <<"mkdir", "whitelist", "archive", "exists">>
  /\ books.exists
  /\ Len(books.items) > 0

\* the records of a list, and their identifiers
C27_Records(items) == {items[k] : k \in 1..Len(items)}

C27_Ids(items) == {items[k].isbn : k \in 1..Len(items)}

\* C27: if the persisted collection exists but cannot be read or parsed, a
\* run that produces at least one record treats the prior collection as
\* empty and overwrites it with today's records only, whereas a zero-result
\* run leaves the unreadable collection untouched; in neither case does the
\* run fail because of the unreadable collection.
C27_UnreadableCollection ==
  [][(books.exists /\ ~books.readable) =>
       /\ (pc = "covers" /\ pc' = "merge") => existing' = <<>>
       /\ pc = "merge" =>
            /\ Len(itemsToday) > 0
            /\ pc' = "done"
            /\ books'.exists /\ books'.readable
            /\ books'.generated_at = run
            /\ C27_Records(books'.items) \subseteq C27_Records(itemsToday)
            /\ C27_Ids(books'.items) = C27_Ids(itemsToday)
       /\ (pc' = "done" /\ Len(itemsToday) = 0) => books' = books
       /\ books' # books => pc = "merge"
       /\ pc \in {"zero", "merge"} => pc' = "done"
       /\ pc' = "aborted" => lastFetch' = "failed" \/ pc = "await"]_vars

\* a run with at least one record has read the unreadable collection and
\* taken it as empty, the write still ahead
C27_Witness ==
  /\ pc = "merge"
  /\ books.exists
  /\ ~books.readable
  /\ Len(itemsToday) > 0
  /\ existing = <<>>
  /\ io[Len(io)] = "read"

====
